---- MODULE Spec2Model ----
(***************************************************************************)
(* Model of scripts/release/cleanup/cleanup_tags.py: the tag classifier,   *)
(* the planner and TagCleaner.execute(), run against a local tag store, a  *)
(* remote tag store and a hosted-release set whose operations can fail.    *)
(*                                                                         *)
(* Tag names are sequences of character codes, so that str.startswith,     *)
(* slicing and sorted() are computed as Python computes them.  Commit ids  *)
(* are sequences of hex digits.                                            *)
(***************************************************************************)
EXTENDS Integers, Sequences, FiniteSets, TLC

\* ------------------------------------------------------------------ bounds
\* Number of version suffixes: legacy tags nWave_v1..nWave_vN, targets v1..vN.
MaxVersion == 2
\* Number of operation failures the environment injects into one run.
MaxFailures == 2
\* Number of plan() and audit() calls a caller makes in a row.
MaxCalls == 2
\* Length of the suffixes of the names the pure functions are applied to.
MaxSuffixLen == 2
\* Number of check-runs in a response given to the CI gate.
MaxRuns == 2

\* ------------------------------------------------------------- tag names
\* NWAVE_PREFIX = "nWave_v"
NWAVE_PREFIX == <<110, 87, 97, 118, 101, 95, 118>>

\* "nWave_v<k>"
LegacyName(k) == NWAVE_PREFIX \o <<48 + k>>
\* "v<k>"
PlainName(k) == <<118, 48 + k>>
\* "alpha": a tag outside both naming schemes
OtherName == <<97, 108, 112, 104, 97>>

Versions == 1..MaxVersion
TagNames == {LegacyName(k) : k \in Versions} \cup {PlainName(k) : k \in Versions}
              \cup {OtherName}

\* Commit ids, longer than the eight characters an error message quotes.
CommitA == <<10, 1, 2, 3, 4, 5, 6, 7, 8>>
CommitB == <<11, 1, 2, 3, 4, 5, 6, 7, 8>>
Commits == {CommitA, CommitB}

NoneVal == "None"
Origin == "origin"
OwnerRepo == "owner/repo"

\* Python truthiness of an optional string (if remote: / if self.gh_repo:)
Truthy(x) == x # NoneVal /\ x # ""

\* ---------------------------------------------------------- pure helpers
Min(a, b) == IF a < b THEN a ELSE b

\* Python str < str: code-point lexicographic order
StrLess(a, b) ==
    \E k \in 1..(Min(Len(a), Len(b)) + 1) :
        /\ \A j \in 1..(k - 1) : a[j] = b[j]
        /\ \/ k > Len(a) /\ k <= Len(b)
           \/ k <= Len(a) /\ k <= Len(b) /\ a[k] < b[k]

\* Python sorted() over a collection of distinct strings
RECURSIVE Sorted(_)
Sorted(S) ==
    IF S = {} THEN <<>>
    ELSE LET m == CHOOSE x \in S : \A y \in S \ {x} : StrLess(x, y)
         IN  <<m>> \o Sorted(S \ {m})

Range(s) == {s[k] : k \in 1..Len(s)}

\* s[:n]
Slice(s, n) == SubSeq(s, 1, Min(n, Len(s)))

\* tag.startswith(prefix)
StartsWith(tag, prefix) ==
    Len(tag) >= Len(prefix) /\ SubSeq(tag, 1, Len(prefix)) = prefix

RENAME == "rename"
DELETE == "delete"

\* Variant: the prefix is looked for anywhere in the name (in, not startswith)
ClassifyTagAnywhere(tag) ==
    IF \E n \in 0..Len(tag) : StartsWith(SubSeq(tag, n + 1, Len(tag)), NWAVE_PREFIX)
    THEN RENAME ELSE DELETE

classify_tag(tag) == IF StartsWith(tag, NWAVE_PREFIX) THEN RENAME ELSE DELETE

\* Variant: every legacy tag is renamed to "v1"
RenameTargetFixed(tag) == PlainName(1)

\* Variant: the slice starts one character early
RenameTargetShortStrip(tag) == <<118>> \o SubSeq(tag, Len(NWAVE_PREFIX), Len(tag))

\* "v" + tag[len(NWAVE_PREFIX):]
rename_target(tag) == <<118>> \o SubSeq(tag, Len(NWAVE_PREFIX) + 1, Len(tag))

\* ------------------------------------------------------------ tag stores
\* A store is a function from the names present to their commits.
EmptyStore == [x \in {} |-> CommitA]
Put(store, tag, commit) ==
    [x \in DOMAIN store \cup {tag} |-> IF x = tag THEN commit ELSE store[x]]
Remove(store, tag) == [x \in DOMAIN store \ {tag} |-> store[x]]

\* git tag --list, sorted
_list_tags(store) == Sorted(DOMAIN store)

\* TagCleaner.plan(): partition of the sorted tag list
RECURSIVE PlanRenames(_)
PlanRenames(tags) ==
    IF tags = <<>> THEN <<>>
    ELSE LET tag == Head(tags)
             rest == PlanRenames(Tail(tags))
         IN  IF classify_tag(tag) = RENAME
             THEN <<[old_name |-> tag, new_name |-> rename_target(tag)]>> \o rest
             ELSE rest

\* Variant: every tag is put on the delete list
RECURSIVE PlanDeletesAll(_)
PlanDeletesAll(tags) ==
    IF tags = <<>> THEN <<>>
    ELSE <<[name |-> Head(tags), classification |-> classify_tag(Head(tags))]>>
             \o PlanDeletesAll(Tail(tags))

RECURSIVE PlanDeletes(_)
PlanDeletes(tags) ==
    IF tags = <<>> THEN <<>>
    ELSE LET tag == Head(tags)
             rest == PlanDeletes(Tail(tags))
         IN  IF classify_tag(tag) = RENAME
             THEN rest
             ELSE <<[name |-> tag, classification |-> classify_tag(tag)]>> \o rest

plan(store) ==
    [to_rename |-> PlanRenames(_list_tags(store)),
     to_delete |-> PlanDeletes(_list_tags(store))]

\* Variant: audit() skips the tags that are not legacy tags
RECURSIVE AuditTagsLegacyOnly(_)
AuditTagsLegacyOnly(tags) ==
    IF tags = <<>> THEN <<>>
    ELSE IF classify_tag(Head(tags)) = RENAME
         THEN <<[name |-> Head(tags), classification |-> RENAME]>>
                  \o AuditTagsLegacyOnly(Tail(tags))
         ELSE AuditTagsLegacyOnly(Tail(tags))

\* TagCleaner.audit(): every tag of the sorted list with its classification
RECURSIVE AuditTags(_)
AuditTags(tags) ==
    IF tags = <<>> THEN <<>>
    ELSE <<[name |-> Head(tags), classification |-> classify_tag(Head(tags))]>>
             \o AuditTags(Tail(tags))

\* AuditReport.total, rename_count, delete_count
total(report) == Len(report.tags)
rename_count(report) ==
    Cardinality({i \in 1..Len(report.tags) : report.tags[i].classification = RENAME})
delete_count(report) ==
    Cardinality({i \in 1..Len(report.tags) : report.tags[i].classification = DELETE})

\* ---------------------------------------------- git tag --list, as printed
RECURSIVE Reverse(_)
Reverse(s) == IF s = <<>> THEN <<>> ELSE Append(Reverse(Tail(s)), Head(s))

\* The lines git tag --list can print for a store: one name per line, in
\* ascending or in descending order of the names (tag.sort).
TagListOutputs(store) == {Sorted(DOMAIN store), Reverse(Sorted(DOMAIN store))}

\* Variant: the lines are taken in the order git printed them
ParseTagListUnsorted(lines) == SelectSeq(lines, LAMBDA l : l # <<>>)

\* sorted(line.strip() for line in result.stdout.splitlines() if line.strip())
ParseTagList(lines) == Sorted({l \in Range(lines) : l # <<>>})

\* ------------------------------------------------------- store operations
\* Outcome of each external store call.  A call fails when the store cannot
\* carry it out, or when the environment injects a failure (inject).

\* git tag --list
ListOk(inject) == ~inject
\* git rev-list -n 1 <tag>
ResolveOk(store, tag, inject) == tag \in DOMAIN store /\ ~inject
\* git tag <tag> <commit>
CreateOk(store, tag, inject) == tag \notin DOMAIN store /\ ~inject
\* git tag -d <tag>
DeleteLocalOk(store, tag, inject) == tag \in DOMAIN store /\ ~inject
\* git push <remote> refs/tags/<tag>
PushOk(loc, rem, tag, inject) ==
    /\ tag \in DOMAIN loc
    /\ tag \in DOMAIN rem => rem[tag] = loc[tag]
    /\ ~inject
\* git push <remote> :refs/tags/<tag>
DeleteRemoteOk(rem, tag, inject) == tag \in DOMAIN rem /\ ~inject
\* gh release delete <tag>
DeleteReleaseOk(rels, tag, inject) == tag \in rels /\ ~inject

\* One entry of the history of store calls issued by a run.
\*   inj: the failure was injected (the store could have carried the call out)
OpRec(op, tag, ok, inj) == [op |-> op, tag |-> tag, ok |-> ok, inj |-> inj]
NoTag == <<>>

\* Variant: the counters of a new result start at one
ExecuteResultFromOne ==
    [renamed_count |-> 1, renamed_tags |-> <<>>,
     deleted_count |-> 1, deleted_tags |-> <<>>, errors |-> <<>>]

ExecuteResult ==
    [renamed_count |-> 0, renamed_tags |-> <<>>,
     deleted_count |-> 0, deleted_tags |-> <<>>, errors |-> <<>>]

\* Error and rename descriptions (the f-strings of execute)
ConflictError(old_tag, new_tag, old_commit, new_commit) ==
    <<"Conflict", old_tag, new_tag, Slice(old_commit, 8), Slice(new_commit, 8)>>
CreateError(tag) == <<"Failed to create tag", tag>>
PushError(tag) == <<"Failed to push tag", tag>>
DeleteLocalError(tag) == <<"Failed to delete local tag", tag>>
DeleteRemoteError(tag) == <<"Failed to delete remote tag", tag>>
RenamedDesc(old_tag, new_tag) == <<old_tag, "->", new_tag>>
ConflictResolvedDesc(old_tag, new_tag) ==
    <<old_tag, "->", new_tag, "(conflict resolved)">>

\* The methods below work on a record m of everything one call can change:
\*   local, remoteStore, releases, protected_tags, result, ops
\* plus ret (the call's return value) and raised (an exception left the call).

\* TagCleaner._list_tags as called inside execute
ListTags(m, F) ==
    LET ok == ListOk("list" \in F)
    IN  [m EXCEPT !.ops = Append(@, OpRec("list", NoTag, ok, ~ok)),
                  !.ret = IF ok THEN _list_tags(m.local) ELSE <<>>,
                  !.raised = ~ok]

\* TagCleaner._get_tag_commit
_get_tag_commit(m, tag, F) ==
    LET ok == ResolveOk(m.local, tag, "resolve" \in F)
    IN  [m EXCEPT !.ops = Append(@, OpRec("resolve", tag, ok,
                                         ~ok /\ tag \in DOMAIN m.local)),
                  !.ret = IF ok THEN m.local[tag] ELSE <<>>,
                  !.raised = ~ok]

\* Variant: the except clause records the error but does not skip the entry
CreateTagNoSkip(m, tag, commit, F) ==
    LET ok == CreateOk(m.local, tag, "create" \in F)
    IN  [m EXCEPT !.local = IF ok THEN Put(@, tag, commit) ELSE @,
                  !.result.errors = IF ok THEN @ ELSE Append(@, CreateError(tag)),
                  !.ops = Append(@, OpRec("create", tag, ok,
                                         ~ok /\ tag \notin DOMAIN m.local)),
                  !.ret = TRUE]

\* Variant: the new tag is created at another commit than the one resolved
CreateTagElsewhere(m, tag, commit, F) ==
    LET ok == CreateOk(m.local, tag, "create" \in F)
    IN  [m EXCEPT !.local = IF ok THEN Put(@, tag, CommitB) ELSE @,
                  !.result.errors = IF ok THEN @ ELSE Append(@, CreateError(tag)),
                  !.ops = Append(@, OpRec("create", tag, ok,
                                         ~ok /\ tag \notin DOMAIN m.local)),
                  !.ret = ok]

\* self._run_git("tag", new_tag, commit) with its except clause
CreateTag(m, tag, commit, F) ==
    LET ok == CreateOk(m.local, tag, "create" \in F)
    IN  [m EXCEPT !.local = IF ok THEN Put(@, tag, commit) ELSE @,
                  !.result.errors = IF ok THEN @ ELSE Append(@, CreateError(tag)),
                  !.ops = Append(@, OpRec("create", tag, ok,
                                         ~ok /\ tag \notin DOMAIN m.local)),
                  !.ret = ok]

\* Variant: a failed push is swallowed instead of being recorded
PushTagSilent(m, tag, F) ==
    LET ok == PushOk(m.local, m.remoteStore, tag, "push" \in F)
    IN  [m EXCEPT !.remoteStore = IF ok THEN Put(@, tag, m.local[tag]) ELSE @,
                  !.ops = Append(@, OpRec("push", tag, ok,
                              ~ok /\ PushOk(m.local, m.remoteStore, tag, FALSE))),
                  !.ret = ok]

\* self._run_git("push", remote, refs/tags/new_tag) with its except clause
PushTag(m, tag, F) ==
    LET ok == PushOk(m.local, m.remoteStore, tag, "push" \in F)
    IN  [m EXCEPT !.remoteStore = IF ok THEN Put(@, tag, m.local[tag]) ELSE @,
                  !.result.errors = IF ok THEN @ ELSE Append(@, PushError(tag)),
                  !.ops = Append(@, OpRec("push", tag, ok,
                              ~ok /\ PushOk(m.local, m.remoteStore, tag, FALSE))),
                  !.ret = ok]

\* Variant: the local deletion reports success whatever happened
DeleteTagLocalAlwaysTrue(m, tag, F) ==
    LET ok == DeleteLocalOk(m.local, tag, "delete_local" \in F)
    IN  [m EXCEPT !.local = IF ok THEN Remove(@, tag) ELSE @,
                  !.result.errors =
                      IF ok THEN @ ELSE Append(@, DeleteLocalError(tag)),
                  !.ops = Append(@, OpRec("delete_local", tag, ok,
                                         ~ok /\ tag \in DOMAIN m.local)),
                  !.ret = TRUE]

\* Variant: no except clause: a failed local deletion leaves the call as an
\* exception
DeleteTagLocalRaises(m, tag, F) ==
    LET ok == DeleteLocalOk(m.local, tag, "delete_local" \in F)
    IN  [m EXCEPT !.local = IF ok THEN Remove(@, tag) ELSE @,
                  !.ops = Append(@, OpRec("delete_local", tag, ok,
                                         ~ok /\ tag \in DOMAIN m.local)),
                  !.ret = ok,
                  !.raised = ~ok]

\* TagCleaner._delete_tag_local
_delete_tag_local(m, tag, F) ==
    LET ok == DeleteLocalOk(m.local, tag, "delete_local" \in F)
    IN  [m EXCEPT !.local = IF ok THEN Remove(@, tag) ELSE @,
                  !.result.errors =
                      IF ok THEN @ ELSE Append(@, DeleteLocalError(tag)),
                  !.ops = Append(@, OpRec("delete_local", tag, ok,
                                         ~ok /\ tag \in DOMAIN m.local)),
                  !.ret = ok]

\* TagCleaner._delete_tag_remote
_delete_tag_remote(m, tag, F) ==
    LET ok == DeleteRemoteOk(m.remoteStore, tag, "delete_remote" \in F)
    IN  [m EXCEPT !.remoteStore = IF ok THEN Remove(@, tag) ELSE @,
                  !.result.errors =
                      IF ok THEN @ ELSE Append(@, DeleteRemoteError(tag)),
                  !.ops = Append(@, OpRec("delete_remote", tag, ok,
                                         ~ok /\ tag \in DOMAIN m.remoteStore)),
                  !.ret = ok]

\* Variant: a failed hosted-release deletion is recorded in errors
DeleteGhReleaseRecorded(m, tag, F) ==
    LET ok == DeleteReleaseOk(m.releases, tag, "delete_release" \in F)
    IN  [m EXCEPT !.releases = IF ok THEN @ \ {tag} ELSE @,
                  !.result.errors =
                      IF ok THEN @ ELSE Append(@, <<"Failed to delete release", tag>>),
                  !.ops = Append(@, OpRec("delete_release", tag, ok,
                                         ~ok /\ tag \in m.releases))]

\* TagCleaner._delete_gh_release: failures are swallowed
_delete_gh_release(m, tag, F) ==
    LET ok == DeleteReleaseOk(m.releases, tag, "delete_release" \in F)
    IN  [m EXCEPT !.releases = IF ok THEN @ \ {tag} ELSE @,
                  !.ops = Append(@, OpRec("delete_release", tag, ok,
                                         ~ok /\ tag \in m.releases))]

\* Variant: plan() removes the tags it lists for deletion
PlanPrunes(m, lines, F) ==
    LET ok == ListOk("list" \in F)
        tags == ParseTagList(lines)
    IN  [m EXCEPT !.ops = Append(@, OpRec("list", NoTag, ok, ~ok)),
                  !.local = IF ok
                            THEN [x \in {t \in DOMAIN @ : classify_tag(t) = RENAME}
                                      |-> @[x]]
                            ELSE @,
                  !.ret = IF ok THEN [to_rename |-> PlanRenames(tags),
                                      to_delete |-> PlanDeletes(tags)]
                          ELSE <<>>,
                  !.raised = ~ok]

\* TagCleaner.plan: lines is what git tag --list prints
TagCleaner_plan(m, lines, F) ==
    LET ok == ListOk("list" \in F)
        tags == ParseTagList(lines)
    IN  [m EXCEPT !.ops = Append(@, OpRec("list", NoTag, ok, ~ok)),
                  !.ret = IF ok THEN [to_rename |-> PlanRenames(tags),
                                      to_delete |-> PlanDeletes(tags)]
                          ELSE <<>>,
                  !.raised = ~ok]

\* TagCleaner.audit
TagCleaner_audit(m, lines, F) ==
    LET ok == ListOk("list" \in F)
        tags == ParseTagList(lines)
    IN  [m EXCEPT !.ops = Append(@, OpRec("list", NoTag, ok, ~ok)),
                  !.ret = IF ok THEN [tags |-> AuditTags(tags)] ELSE <<>>,
                  !.raised = ~ok]

\* Variant: main() returns 0 whatever the run recorded
ExitCodeZero(errors) == 0

\* return 1 if result.errors else 0
ExitCode(errors) == IF errors # <<>> THEN 1 ELSE 0

\* --------------------------------------------------------------- state
VARIABLES
    local,           \* local tag store: name -> commit
    remoteStore,     \* tag store of the remote
    releases,        \* tag names that have a hosted release
    gh_repo,         \* TagCleaner.gh_repo
    remote,          \* the remote argument of execute()
    pc,              \* "idle", "rename", "delete", "done", "raised"
    to_rename,       \* cleanup_plan.to_rename of the running execute()
    entry_idx,       \* position of the rename loop (next entry)
    current_tags,    \* the delete phase's tag list
    tag_idx,         \* position of the delete loop (next tag)
    protected_tags,  \* execute()'s protected_tags
    result,          \* execute()'s ExecuteResult
    ops,             \* history of the store calls the run issued
    failures,        \* number of failures injected so far
    delete_from,     \* length of ops when the delete phase began (0: not begun)
    local0,          \* the local store when execute() was called
    remote0,         \* the remote store when execute() was called
    existing_tags,   \* the tag list the latest rename iteration read
    mode,            \* how the cleaner is driven: "api", or main()'s mode
    exit_code,       \* main()'s return value, in a tuple (<<>>: not returned)
    observed         \* results of the plan() and audit() calls so far

vars == <<local, remoteStore, releases, gh_repo, remote, pc, to_rename, entry_idx,
          current_tags, tag_idx, protected_tags, result, ops, failures,
          delete_from, local0, remote0, existing_tags, mode, exit_code,
          observed>>

\* What only main() and the callers of plan() and audit() change
cli == <<mode, exit_code, observed>>

\* The mutable part of the state as one record, and back.
Machine ==
    [local |-> local, remoteStore |-> remoteStore, releases |-> releases,
     protected_tags |-> protected_tags, result |-> result, ops |-> ops,
     existing_tags |-> existing_tags, ret |-> FALSE, raised |-> FALSE]

Install(m) ==
    /\ local' = m.local
    /\ remoteStore' = m.remoteStore
    /\ releases' = m.releases
    /\ protected_tags' = m.protected_tags
    /\ result' = m.result
    /\ ops' = m.ops
    /\ existing_tags' = m.existing_tags

FailKinds == {"list", "resolve", "create", "push", "delete_local",
              "delete_remote", "delete_release"}

\* The calls that m1 issued after m0 and that failed by injection
InjectedKinds(m0, m1) ==
    {m1.ops[k].op : k \in {j \in (Len(m0.ops) + 1)..Len(m1.ops) : m1.ops[j].inj}}

\* F is a failure pattern the step from m0 to m1 really used, within budget
UsesFailures(F, m0, m1) ==
    /\ F = InjectedKinds(m0, m1)
    /\ failures + Cardinality(F) <= MaxFailures

\* ----------------------------------------------------- execute(): decisions
\* Variant: the rename loop never finds its target in the list
TargetExistsNever(new_tag, tags) == FALSE
\* if new_tag in existing_tags
TargetExists(new_tag, tags) == new_tag \in Range(tags)
\* Variant: the comparison is inverted
SameCommitInverted(old_commit, new_commit) == old_commit # new_commit
\* if old_commit == new_commit
SameCommit(old_commit, new_commit) == old_commit = new_commit
\* Variant: the delete loop has no protected-set check
IsProtectedNever(tag, protected) == FALSE
\* if tag in protected_tags: continue
IsProtected(tag, protected) == tag \in protected
\* Variant: the delete loop has no classification test
ShouldDeleteAlways(tag) == TRUE
\* Variant: the delete loop's classification test never passes
ShouldDeleteNever(tag) == FALSE
\* if classify_tag(tag) == TagClassification.DELETE
ShouldDelete(tag) == classify_tag(tag) = DELETE
\* Variant: the delete phase does not wait for the last rename entry
RenamePhaseOverEarly(idx, entries) == idx > Len(entries) - 1
\* the rename loop is over: the delete phase may start
RenamePhaseOver(idx, entries) == idx > Len(entries)

\* Variant: the rename is counted but not listed
RecordRenameCountOnly(m, new_tag, desc) ==
    [m EXCEPT !.protected_tags = @ \cup {new_tag},
              !.result.renamed_count = @ + 1]

\* Record one rename in the result and protect its target.
RecordRename(m, new_tag, desc) ==
    [m EXCEPT !.protected_tags = @ \cup {new_tag},
              !.result.renamed_count = @ + 1,
              !.result.renamed_tags = Append(@, desc)]

\* Conflict branch of the rename loop: the target exists
ConflictBranch(m, old_tag, new_tag, rem, F) ==
    LET r1 == _get_tag_commit(m, old_tag, F)
        r2 == _get_tag_commit(r1, new_tag, F)
        old_commit == r1.ret
        new_commit == r2.ret
        d1 == _delete_tag_local(r2, old_tag, F)
        d2 == IF Truthy(rem) THEN _delete_tag_remote(d1, old_tag, F) ELSE d1
    IN  IF r1.raised THEN r1
        ELSE IF r2.raised THEN r2
        ELSE IF SameCommit(old_commit, new_commit)
        THEN RecordRename(d2, new_tag, ConflictResolvedDesc(old_tag, new_tag))
        ELSE [r2 EXCEPT !.result.errors =
                 Append(@, ConflictError(old_tag, new_tag, old_commit, new_commit))]

\* Variant: a failed local deletion of the old tag ends the entry
CreateBranchConsultsDelete(m, old_tag, new_tag, rem, F) ==
    LET r1 == _get_tag_commit(m, old_tag, F)
        c1 == CreateTag(r1, new_tag, r1.ret, F)
        p1 == IF Truthy(rem) THEN PushTag(c1, new_tag, F) ELSE c1
        d1 == _delete_tag_local(p1, old_tag, F)
        d2 == IF Truthy(rem) THEN _delete_tag_remote(d1, old_tag, F) ELSE d1
    IN  IF r1.raised THEN r1
        ELSE IF ~c1.ret THEN c1
        ELSE IF ~d1.ret THEN d1
        ELSE RecordRename(d2, new_tag, RenamedDesc(old_tag, new_tag))

\* No-conflict branch of the rename loop: create, push, delete the old tag
CreateBranch(m, old_tag, new_tag, rem, F) ==
    LET r1 == _get_tag_commit(m, old_tag, F)
        c1 == CreateTag(r1, new_tag, r1.ret, F)
        p1 == IF Truthy(rem) THEN PushTag(c1, new_tag, F) ELSE c1
        d1 == _delete_tag_local(p1, old_tag, F)
        d2 == IF Truthy(rem) THEN _delete_tag_remote(d1, old_tag, F) ELSE d1
    IN  IF r1.raised THEN r1
        ELSE IF ~c1.ret THEN c1
        ELSE RecordRename(d2, new_tag, RenamedDesc(old_tag, new_tag))

\* Variant: the tag list is read once and kept for the later iterations
RenameIterationCached(m, entry, rem, F) ==
    LET l0 == ListTags(m, F)
        l1 == IF m.existing_tags = <<>>
              THEN [l0 EXCEPT !.existing_tags = l0.ret] ELSE l0
    IN  IF l0.raised THEN l0
        ELSE IF TargetExists(entry.new_name, l1.existing_tags)
        THEN ConflictBranch(l1, entry.old_name, entry.new_name, rem, F)
        ELSE CreateBranch(l1, entry.old_name, entry.new_name, rem, F)

\* One iteration of the rename loop
RenameIteration(m, entry, rem, F) ==
    LET l0 == ListTags(m, F)
        l1 == [l0 EXCEPT !.existing_tags = l0.ret]
    IN  IF l0.raised THEN l0
        ELSE IF TargetExists(entry.new_name, l1.existing_tags)
        THEN ConflictBranch(l1, entry.old_name, entry.new_name, rem, F)
        ELSE CreateBranch(l1, entry.old_name, entry.new_name, rem, F)

\* Variant: the delete loop leaves the remote alone
DeleteIterationLocalOnly(m, tag, rem, gh, F) ==
    LET d1 == _delete_tag_local(m, tag, F)
        d3 == [d1 EXCEPT !.result.deleted_count = @ + 1,
                         !.result.deleted_tags = Append(@, tag)]
        d4 == IF Truthy(gh) THEN _delete_gh_release(d3, tag, F) ELSE d3
    IN  IF IsProtected(tag, m.protected_tags) THEN m
        ELSE IF ~ShouldDelete(tag) THEN m
        ELSE IF ~d1.ret THEN d1
        ELSE d4

\* One iteration of the delete loop
DeleteIteration(m, tag, rem, gh, F) ==
    LET d1 == _delete_tag_local(m, tag, F)
        d2 == IF Truthy(rem) THEN _delete_tag_remote(d1, tag, F) ELSE d1
        d3 == [d2 EXCEPT !.result.deleted_count = @ + 1,
                         !.result.deleted_tags = Append(@, tag)]
        d4 == IF Truthy(gh) THEN _delete_gh_release(d3, tag, F) ELSE d3
    IN  IF IsProtected(tag, m.protected_tags) THEN m
        ELSE IF ~ShouldDelete(tag) THEN m
        ELSE IF ~d1.ret THEN d1
        ELSE d4

\* ---------------------------------------------------------------- Init
Absent == <<>>

\* The store holding the tags that layout f marks present
StoreOf(f) == [x \in {t \in DOMAIN f : f[t] # Absent} |-> f[x]]

\* Legacy tags and the other tag sit on CommitA when present; a plain tag
\* v<k> may sit on either commit, so that a rename target can pre-exist on
\* the same commit as its legacy tag or on a different one.
InitialStores ==
    {StoreOf(f) : f \in {g \in [TagNames -> Commits \cup {Absent}] :
        \A t \in TagNames :
            (classify_tag(t) = RENAME \/ t = OtherName) => g[t] # CommitB}}

\* The repository, its remote and the hosted releases before any call, and
\* execute()'s locals before execute() is called
Constructed ==
    /\ local \in InitialStores
    /\ remote \in {NoneVal, Origin}
    /\ gh_repo \in {NoneVal, OwnerRepo}
    /\ remoteStore \in IF Truthy(remote) THEN {local, EmptyStore} ELSE {local}
    /\ releases = IF Truthy(gh_repo)
                  THEN {t \in DOMAIN local : t # OtherName} ELSE {}
    /\ to_rename = <<>>
    /\ entry_idx = 1
    /\ current_tags = <<>>
    /\ tag_idx = 1
    /\ protected_tags = {}
    /\ result = ExecuteResult
    /\ ops = <<>>
    /\ failures = 0
    /\ delete_from = 0
    /\ local0 = local
    /\ remote0 = remoteStore
    /\ existing_tags = <<>>
    /\ exit_code = <<>>
    /\ observed = <<>>

\* A TagCleaner driven through its methods: execute() is about to be called
Init ==
    /\ Constructed
    /\ mode = "api"
    /\ pc = "idle"

\* -------------------------------------------------------------- actions
Patterns == {F \in SUBSET FailKinds : failures + Cardinality(F) <= MaxFailures}

\* Variant: the protected set outlives the run that filled it
ExecuteBeginsKeepsProtected(raises) ==
    /\ pc = "idle"
    /\ \E F \in Patterns :
        LET m1 == ListTags(Machine, F)
        IN  /\ UsesFailures(F, Machine, m1)
            /\ m1.raised = raises
            /\ ops' = m1.ops
            /\ failures' = failures + Cardinality(F)
            /\ to_rename' = IF raises THEN <<>> ELSE PlanRenames(m1.ret)
    /\ pc' = IF raises THEN "raised" ELSE "rename"
    /\ entry_idx' = 1
    /\ result' = ExecuteResult
    /\ UNCHANGED <<local, remoteStore, releases, gh_repo, remote, current_tags,
                   tag_idx, delete_from, local0, remote0, existing_tags, cli,
                   protected_tags>>

\* execute() is called: cleanup_plan = self.plan(), result and protected_tags
\* are created.  raises: the tag listing of plan() failed.
ExecuteBegins(raises) ==
    /\ pc = "idle"
    /\ \E F \in Patterns :
        LET m1 == ListTags(Machine, F)
        IN  /\ UsesFailures(F, Machine, m1)
            /\ m1.raised = raises
            /\ ops' = m1.ops
            /\ failures' = failures + Cardinality(F)
            /\ to_rename' = IF raises THEN <<>> ELSE PlanRenames(m1.ret)
    /\ pc' = IF raises THEN "raised" ELSE "rename"
    /\ entry_idx' = 1
    /\ result' = ExecuteResult
    /\ protected_tags' = {}
    /\ UNCHANGED <<local, remoteStore, releases, gh_repo, remote, current_tags,
                   tag_idx, delete_from, local0, remote0, existing_tags, cli>>

StartExecute == ExecuteBegins(FALSE)
StartExecuteRaises == ExecuteBegins(TRUE)

\* One pass through the body of the rename loop.
\* raises: a listing or a commit lookup failed and the exception left execute().
RenameStep(raises) ==
    /\ pc = "rename"
    /\ ~RenamePhaseOver(entry_idx, to_rename)
    /\ \E F \in Patterns :
        LET m1 == RenameIteration(Machine, to_rename[entry_idx], remote, F)
        IN  /\ UsesFailures(F, Machine, m1)
            /\ m1.raised = raises
            /\ Install(m1)
            /\ failures' = failures + Cardinality(F)
    /\ pc' = IF raises THEN "raised" ELSE "rename"
    /\ entry_idx' = IF raises THEN entry_idx ELSE entry_idx + 1
    /\ UNCHANGED <<gh_repo, remote, to_rename, current_tags, tag_idx, delete_from,
                   local0, remote0, cli>>

RenameEntry == RenameStep(FALSE)
RenameRaises == RenameStep(TRUE)

\* current_tags = self._list_tags() between the two loops
DeletePhaseBegins(raises) ==
    /\ pc = "rename"
    /\ RenamePhaseOver(entry_idx, to_rename)
    /\ \E F \in Patterns :
        LET m1 == ListTags(Machine, F)
        IN  /\ UsesFailures(F, Machine, m1)
            /\ m1.raised = raises
            /\ ops' = m1.ops
            /\ failures' = failures + Cardinality(F)
            /\ current_tags' = m1.ret
            /\ delete_from' = IF raises THEN delete_from ELSE Len(m1.ops)
    /\ pc' = IF raises THEN "raised" ELSE "delete"
    /\ tag_idx' = 1
    /\ UNCHANGED <<local, remoteStore, releases, gh_repo, remote, to_rename,
                   entry_idx, protected_tags, result, local0, remote0,
                   existing_tags, cli>>

BeginDelete == DeletePhaseBegins(FALSE)
BeginDeleteRaises == DeletePhaseBegins(TRUE)

\* One pass through the body of the delete loop
DeleteTag ==
    /\ pc = "delete"
    /\ tag_idx <= Len(current_tags)
    /\ \E F \in Patterns :
        LET m1 == DeleteIteration(Machine, current_tags[tag_idx], remote, gh_repo, F)
        IN  /\ UsesFailures(F, Machine, m1)
            /\ Install(m1)
            /\ failures' = failures + Cardinality(F)
    /\ tag_idx' = tag_idx + 1
    /\ UNCHANGED <<gh_repo, remote, pc, to_rename, entry_idx, current_tags,
                   delete_from, local0, remote0, cli>>

\* return result
Finish ==
    /\ pc = "delete"
    /\ tag_idx > Len(current_tags)
    /\ pc' = "done"
    /\ UNCHANGED <<local, remoteStore, releases, gh_repo, remote, to_rename,
                   entry_idx, current_tags, tag_idx, protected_tags, result, ops,
                   failures, delete_from, local0, remote0, existing_tags, cli>>

Next ==
    \/ StartExecute
    \/ StartExecuteRaises
    \/ RenameEntry
    \/ RenameRaises
    \/ BeginDelete
    \/ BeginDeleteRaises
    \/ DeleteTag
    \/ Finish

Spec == Init /\ [][Next]_vars

\* ------------------------------------------------ plan() and audit() calls
\* One call of plan() or audit(): what it does to the stores, the failure
\* budget and the results seen.  raises: the tag listing failed.
Reads(call, raises) ==
    \E F \in SUBSET {"list"}, lines \in TagListOutputs(local) :
        LET m1 == IF call = "plan" THEN TagCleaner_plan(Machine, lines, F)
                  ELSE TagCleaner_audit(Machine, lines, F)
        IN  /\ UsesFailures(F, Machine, m1)
            /\ m1.raised = raises
            /\ local' = m1.local
            /\ remoteStore' = m1.remoteStore
            /\ releases' = m1.releases
            /\ failures' = failures + Cardinality(F)
            /\ observed' = IF raises THEN observed
                           ELSE Append(observed, [call |-> call, lines |-> lines,
                                                  value |-> m1.ret])

\* What a plan() or audit() call leaves alone
ReadFrame ==
    UNCHANGED <<gh_repo, remote, to_rename, entry_idx, current_tags, tag_idx,
                protected_tags, result, ops, delete_from, local0, remote0,
                existing_tags, mode>>

\* A caller of the TagCleaner calls plan() or audit()
Calls(call, raises) ==
    /\ pc = "idle"
    /\ mode = "api"
    /\ Len(observed) < MaxCalls
    /\ Reads(call, raises)
    /\ pc' = IF raises THEN "raised" ELSE pc
    /\ ReadFrame
    /\ UNCHANGED exit_code

CallPlan == Calls("plan", FALSE)
CallPlanRaises == Calls("plan", TRUE)
CallAudit == Calls("audit", FALSE)
CallAuditRaises == Calls("audit", TRUE)

NextRead ==
    \/ CallPlan
    \/ CallPlanRaises
    \/ CallAudit
    \/ CallAuditRaises

SpecRead == Init /\ [][NextRead]_vars

\* ----------------------------------------------------------------- main()
\* main() has parsed its arguments and built the TagCleaner: --repo is
\* required, so gh_repo is set.
InitMain ==
    /\ Constructed
    /\ Truthy(gh_repo)
    /\ mode \in {"audit", "plan", "execute"}
    /\ pc = "main"

\* The audit mode and the plan mode: one call, the report is printed, return 0
MainReads(call, raises) ==
    /\ pc = "main"
    /\ mode = call
    /\ Reads(call, raises)
    /\ pc' = IF raises THEN "raised" ELSE "exit"
    /\ exit_code' = IF raises THEN exit_code ELSE <<0>>
    /\ ReadFrame

MainAudit == MainReads("audit", FALSE)
MainAuditRaises == MainReads("audit", TRUE)
MainPlan == MainReads("plan", FALSE)
MainPlanRaises == MainReads("plan", TRUE)

\* The execute mode: plan = cleaner.plan() is printed, then execute() is called
MainExecutePlans(raises) ==
    /\ pc = "main"
    /\ mode = "execute"
    /\ Reads("plan", raises)
    /\ pc' = IF raises THEN "raised" ELSE "idle"
    /\ ReadFrame
    /\ UNCHANGED exit_code

MainExecute == MainExecutePlans(FALSE)
MainExecuteRaises == MainExecutePlans(TRUE)

\* execute() has returned: return 1 if result.errors else 0
MainReturns ==
    /\ pc = "done"
    /\ mode = "execute"
    /\ pc' = "exit"
    /\ exit_code' = <<ExitCode(result.errors)>>
    /\ UNCHANGED <<local, remoteStore, releases, gh_repo, remote, to_rename,
                   entry_idx, current_tags, tag_idx, protected_tags, result, ops,
                   failures, delete_from, local0, remote0, existing_tags, mode,
                   observed>>

NextMain ==
    \/ MainAudit
    \/ MainAuditRaises
    \/ MainPlan
    \/ MainPlanRaises
    \/ MainExecute
    \/ MainExecuteRaises
    \/ Next
    \/ MainReturns

SpecMain == InitMain /\ [][NextMain]_vars

\* ------------------------------------- classify_tag and rename_target alone
\* Characters of the suffixes: "1", "." and "v"
SuffixChars == {49, 46, 118}

\* The strings over SuffixChars of length n or less
RECURSIVE Suffixes(_)
Suffixes(n) ==
    IF n = 0 THEN {<<>>}
    ELSE Suffixes(n - 1) \cup
         {Append(x, c) : x \in {y \in Suffixes(n - 1) : Len(y) = n - 1}, c \in SuffixChars}

\* Beginnings of names: "", "nWave_v", "nWave_", "nwave_v", "NWAVE_V",
\* "xnWave_v", "v"
Heads ==
    {<<>>, <<110, 87, 97, 118, 101, 95, 118>>, <<110, 87, 97, 118, 101, 95>>,
     <<110, 119, 97, 118, 101, 95, 118>>, <<78, 87, 65, 86, 69, 95, 86>>,
     <<120, 110, 87, 97, 118, 101, 95, 118>>, <<118>>}

\* The tag names the two functions are applied to
PureInputs == {h \o x : h \in Heads, x \in Suffixes(MaxSuffixLen)}

\* A caller with a repository that has no remote and no hosted repository
InitPure ==
    /\ Constructed
    /\ ~Truthy(remote)
    /\ ~Truthy(gh_repo)
    /\ mode = "pure"
    /\ pc = "idle"

\* What an application of a pure function leaves alone
PureFrame ==
    UNCHANGED <<local, remoteStore, releases, gh_repo, remote, pc, to_rename,
                entry_idx, current_tags, tag_idx, protected_tags, result, ops,
                failures, delete_from, local0, remote0, existing_tags, mode,
                exit_code>>

\* classify_tag(T) is evaluated
ApplyClassify ==
    /\ mode = "pure"
    /\ observed = <<>>
    /\ \E T \in PureInputs :
           observed' = <<[call |-> "classify_tag", arg |-> T,
                          value |-> classify_tag(T)]>>
    /\ PureFrame

\* rename_target(T) is evaluated
ApplyRenameTarget ==
    /\ mode = "pure"
    /\ observed = <<>>
    /\ \E T \in PureInputs :
           observed' = <<[call |-> "rename_target", arg |-> T,
                          value |-> rename_target(T)]>>
    /\ PureFrame

\* plan() is called on the repository
ApplyPlan ==
    /\ mode = "pure"
    /\ observed = <<>>
    /\ \E lines \in TagListOutputs(local) :
           observed' = <<[call |-> "plan", arg |-> lines,
                          value |-> TagCleaner_plan(Machine, lines, {}).ret]>>
    /\ PureFrame

NextPure ==
    \/ ApplyClassify
    \/ ApplyRenameTarget
    \/ ApplyPlan

SpecPure == InitPure /\ [][NextPure]_vars

\* --------------------------------------- ci_gate.py: evaluate_check_runs
\* dict.get(key, default)
Get(d, key, default) == IF key \in DOMAIN d THEN d[key] ELSE default

\* [cr for cr in check_runs if cr["name"] != self_workflow], if self_workflow
ExcludeSelf(check_runs, self_workflow) ==
    IF Truthy(self_workflow)
    THEN SelectSeq(check_runs, LAMBDA cr : cr.name # self_workflow)
    ELSE check_runs

\* The details list of the result
Details(check_runs) ==
    [i \in 1..Len(check_runs) |->
        [name |-> check_runs[i].name, status |-> check_runs[i].status,
         conclusion |-> Get(check_runs[i], "conclusion", NoneVal)]]

\* [cr["name"] for cr in check_runs if cr.get("conclusion") == "failure"]
FailedRuns(check_runs) ==
    LET bad == SelectSeq(check_runs,
                         LAMBDA cr : Get(cr, "conclusion", NoneVal) = "failure")
    IN  [i \in 1..Len(bad) |-> bad[i].name]

\* [cr for cr in check_runs if cr["status"] != "completed"]
PendingRuns(check_runs) == SelectSeq(check_runs, LAMBDA cr : cr.status # "completed")

evaluate_check_runs(response_data, sha, self_workflow) ==
    LET check_runs == ExcludeSelf(Get(response_data, "check_runs", <<>>), self_workflow)
        short_sha == Slice(sha, 7)
        details == Details(check_runs)
        failed == FailedRuns(check_runs)
    IN  IF check_runs = <<>>
        THEN [status |-> "none", exit_code |-> 3,
              message |-> <<"No CI run found for", short_sha>>, details |-> details]
        ELSE IF failed # <<>>
        THEN [status |-> "failed", exit_code |-> 1,
              message |-> <<"CI failed on", short_sha, failed>>, details |-> details]
        ELSE IF PendingRuns(check_runs) # <<>>
        THEN [status |-> "pending", exit_code |-> 2,
              message |-> <<"CI still running on", short_sha>>, details |-> details]
        ELSE [status |-> "green", exit_code |-> 0,
              message |-> <<"All check-runs passed on", Len(check_runs), short_sha>>,
              details |-> details]

\* Check-runs as the API reports them: a run that is not completed has no
\* conclusion yet, a completed one has one of GitHub's conclusions.
RunNames == {"CI Pipeline", "release-dev"}
Conclusions == {"success", "failure", "cancelled", "skipped"}
CheckRuns ==
    [name : RunNames, status : {"queued", "in_progress"}, conclusion : {NoneVal}]
        \cup [name : RunNames, status : {"completed"}, conclusion : Conclusions]

\* The sequences over S of length n or less
RECURSIVE SeqsUpTo(_, _)
SeqsUpTo(S, n) ==
    IF n = 0 THEN {<<>>}
    ELSE SeqsUpTo(S, n - 1) \cup
         {Append(x, c) : x \in {y \in SeqsUpTo(S, n - 1) : Len(y) = n - 1}, c \in S}

\* Responses of the check-runs API: with a check_runs list, or without one
Responses ==
    {[total_count |-> Len(runs), check_runs |-> runs] : runs \in SeqsUpTo(CheckRuns, MaxRuns)}
        \cup {[total_count |-> 0]}

\* "abc123456", a commit id longer than the seven characters quoted
SampleSha == <<97, 98, 99, 49, 50, 51, 52, 53, 54>>

\* Nothing of the tag cleaner is running
InitGate ==
    /\ Constructed
    /\ local = EmptyStore
    /\ ~Truthy(remote)
    /\ ~Truthy(gh_repo)
    /\ mode = "ci_gate"
    /\ pc = "idle"

\* evaluate_check_runs is applied to a response
EvaluateCheckRuns ==
    /\ mode = "ci_gate"
    /\ observed = <<>>
    /\ \E response \in Responses, self_workflow \in {NoneVal, "", "release-dev"} :
           observed' = <<[call |-> "evaluate_check_runs",
                          arg |-> [response_data |-> response,
                                   self_workflow |-> self_workflow],
                          value |-> evaluate_check_runs(response, SampleSha,
                                                        self_workflow)]>>
    /\ PureFrame

NextGate == EvaluateCheckRuns

SpecGate == InitGate /\ [][NextGate]_vars

\* ------------------------------- opencode_hook_adapter.py: the handlers
\* JSON values: a dict is [type |-> "dict", items |-> record], a list is
\* [type |-> "list"]; strings are themselves.
JDict(items) == [type |-> "dict", items |-> items]
JList == [type |-> "list"]
EmptyDict == JDict(<<>>)

\* The texts the plugin may write on the handler's stdin
BlankStdin == {"", " \n"}
BadStdin == {"{bad", "not-json{"}
StdinTexts ==
    BlankStdin \cup BadStdin \cup
        {"[]", "{}", "{\"sessionID\": \"s1\"}",
         "{\"transcript_path\": \"/tmp/t.jsonl\", \"cwd\": \"/w\"}",
         "{\"tool\": \"Task\", \"args\": {\"prompt\": \"Do something\"}}",
         "{\"tool\": \"Task\", \"args\": {\"prompt\": \"DES-VALIDATION step\"}}",
         "{\"tool\": \"Task\", \"args\": []}"}

\* json.loads on these texts; parse_error is the JSONDecodeError's message
json_loads(input_data) ==
    CASE input_data \in BadStdin -> [error |-> "Invalid JSON"]
      [] input_data = "[]" -> [error |-> NoneVal, value |-> JList]
      [] input_data = "{}" -> [error |-> NoneVal, value |-> EmptyDict]
      [] input_data = "{\"sessionID\": \"s1\"}" ->
            [error |-> NoneVal, value |-> JDict([sessionID |-> "s1"])]
      [] input_data = "{\"transcript_path\": \"/tmp/t.jsonl\", \"cwd\": \"/w\"}" ->
            [error |-> NoneVal,
             value |-> JDict([transcript_path |-> "/tmp/t.jsonl", cwd |-> "/w"])]
      [] input_data = "{\"tool\": \"Task\", \"args\": {\"prompt\": \"Do something\"}}" ->
            [error |-> NoneVal,
             value |-> JDict([tool |-> "Task",
                              args |-> JDict([prompt |-> "Do something"])])]
      [] input_data = "{\"tool\": \"Task\", \"args\": {\"prompt\": \"DES-VALIDATION step\"}}" ->
            [error |-> NoneVal,
             value |-> JDict([tool |-> "Task",
                              args |-> JDict([prompt |-> "DES-VALIDATION step"])])]
      [] input_data = "{\"tool\": \"Task\", \"args\": []}" ->
            [error |-> NoneVal, value |-> JDict([tool |-> "Task", args |-> JList])]

_read_and_parse_stdin(input_data) ==
    IF input_data \in BlankStdin
    THEN [hook_input |-> NoneVal, is_empty |-> TRUE, parse_error |-> NoneVal]
    ELSE LET parsed == json_loads(input_data)
         IN  IF parsed.error # NoneVal
             THEN [hook_input |-> NoneVal, is_empty |-> FALSE,
                   parse_error |-> parsed.error]
             ELSE [hook_input |-> parsed.value, is_empty |-> FALSE,
                   parse_error |-> NoneVal]

\* value.get(...) raises AttributeError unless value is a dict
IsDict(value) == value.type = "dict"

_translate_stop_input(hook_input) ==
    [agent_transcript_path |-> Get(hook_input.items, "transcript_path", ""),
     cwd |-> Get(hook_input.items, "cwd", ""),
     session_id |-> Get(hook_input.items, "sessionID", "")]

\* _EXIT_CODE_TO_DECISION.get(exit_code, "error")
_EXIT_CODE_TO_DECISION(code) ==
    CASE code = 0 -> "allow" [] code = 1 -> "error" [] code = 2 -> "block"
      [] OTHER -> "error"

\* What a handler leaves behind: its return value, the JSON printed on
\* stdout, and the exit code and decision of its HOOK_COMPLETED event
\* (the finally clause reads the local exit_code, which an early
\* `return 0` leaves at its initial 0).
Handled(code, stdout, logged) ==
    [exit_code |-> code, stdout |-> stdout,
     completed |-> [exit_code |-> logged,
                    decision |-> _EXIT_CODE_TO_DECISION(logged)]]

\* What the collaborators of the handlers may do.  A decision is what
\* HookDecision.allow() and HookDecision.block(...) build; a call may
\* also raise.
Raises == [kind |-> "raises"]
Decisions ==
    {[kind |-> "returns", action |-> "allow", exit_code |-> 0, reason |-> NoneVal],
     [kind |-> "returns", action |-> "block", exit_code |-> 2,
      reason |-> "Missing DES markers"],
     [kind |-> "returns", action |-> "block", exit_code |-> 2, reason |-> NoneVal]}
ServiceOutcomes == Decisions \cup {Raises}
ContextOutcomes ==
    {[kind |-> "none"],
     [kind |-> "returns", project_id |-> "p1", step_id |-> "01-01"],
     Raises}
CompletionOutcomes ==
    {[kind |-> "returns", additional_context |-> NoneVal],
     [kind |-> "returns", additional_context |-> "Sub-agent failed"],
     Raises}

\* except Exception in handle_pre_tool_use
PreToolUseError == Handled(1, [status |-> "error", reason |-> "Unexpected error"], 1)

handle_pre_tool_use(input_data, validate) ==
    LET stdin_result == _read_and_parse_stdin(input_data)
        hook_input == stdin_result.hook_input
    IN  IF stdin_result.is_empty THEN Handled(0, [decision |-> "allow"], 0)
        ELSE IF stdin_result.parse_error # NoneVal
        THEN Handled(1, [status |-> "error", reason |-> stdin_result.parse_error], 1)
        ELSE IF ~IsDict(hook_input) THEN PreToolUseError
        ELSE IF ~IsDict(Get(hook_input.items, "args", EmptyDict)) THEN PreToolUseError
        ELSE IF validate.kind = "raises" THEN PreToolUseError
        ELSE IF validate.action = "allow" THEN Handled(0, [decision |-> "allow"], 0)
        ELSE Handled(validate.exit_code,
                     [decision |-> "block",
                      reason |-> IF validate.reason = NoneVal
                                 THEN "Validation failed" ELSE validate.reason],
                     validate.exit_code)

\* except Exception in handle_stop: the message goes to stderr
StopError == Handled(1, NoneVal, 1)

handle_stop(input_data, extract, validate) ==
    LET stdin_result == _read_and_parse_stdin(input_data)
        hook_input == stdin_result.hook_input
    IN  IF stdin_result.is_empty THEN Handled(0, [decision |-> "allow"], 0)
        ELSE IF stdin_result.parse_error # NoneVal
        THEN Handled(1, [status |-> "error", reason |-> stdin_result.parse_error], 1)
        ELSE IF ~IsDict(hook_input) THEN StopError
        ELSE LET translated == _translate_stop_input(hook_input)
                 called == Truthy(translated.agent_transcript_path)
             IN  IF called /\ extract.kind = "raises" THEN StopError
                 ELSE IF ~called \/ extract.kind = "none"
                 THEN Handled(0, [decision |-> "allow"], 0)
                 ELSE IF validate.kind = "raises" THEN StopError
                 ELSE IF validate.action = "allow"
                 THEN Handled(0, [decision |-> "allow"], 0)
                 ELSE Handled(0, [decision |-> "block",
                                  reason |-> "STOP HOOK VALIDATION FAILED"], 0)

\* handle_post_tool_use with the except clause of the other two handlers
HandlePostToolUseFailClosed(input_data, check_completion_status) ==
    LET stdin_result == _read_and_parse_stdin(input_data)
        hook_input == stdin_result.hook_input
    IN  IF stdin_result.is_empty THEN Handled(0, <<>>, 0)
        ELSE IF stdin_result.parse_error # NoneVal THEN Handled(0, <<>>, 0)
        ELSE IF ~IsDict(hook_input) THEN Handled(1, <<>>, 1)
        ELSE IF ~IsDict(Get(hook_input.items, "args", EmptyDict)) THEN Handled(1, <<>>, 1)
        ELSE IF check_completion_status.kind = "raises" THEN Handled(1, <<>>, 1)
        ELSE IF check_completion_status.additional_context # NoneVal
        THEN Handled(0, [additionalContext |->
                             check_completion_status.additional_context], 0)
        ELSE Handled(0, <<>>, 0)

handle_post_tool_use(input_data, check_completion_status) ==
    LET stdin_result == _read_and_parse_stdin(input_data)
        hook_input == stdin_result.hook_input
    IN  IF stdin_result.is_empty THEN Handled(0, <<>>, 0)
        ELSE IF stdin_result.parse_error # NoneVal THEN Handled(0, <<>>, 0)
        ELSE IF ~IsDict(hook_input) THEN Handled(0, <<>>, 0)
        ELSE IF ~IsDict(Get(hook_input.items, "args", EmptyDict)) THEN Handled(0, <<>>, 0)
        ELSE IF check_completion_status.kind = "raises" THEN Handled(0, <<>>, 0)
        ELSE IF check_completion_status.additional_context # NoneVal
        THEN Handled(0, [additionalContext |->
                             check_completion_status.additional_context], 0)
        ELSE Handled(0, <<>>, 0)

\* The adapter process before main() routes its command
InitHook ==
    /\ Constructed
    /\ local = EmptyStore
    /\ ~Truthy(remote)
    /\ ~Truthy(gh_repo)
    /\ mode = "hook"
    /\ pc = "idle"

HandlePreToolUse ==
    /\ mode = "hook"
    /\ observed = <<>>
    /\ \E input_data \in StdinTexts, validate \in ServiceOutcomes :
           observed' = <<[call |-> "handle_pre_tool_use",
                          arg |-> [stdin |-> input_data, validate |-> validate],
                          value |-> handle_pre_tool_use(input_data, validate)]>>
    /\ PureFrame

HandleStop ==
    /\ mode = "hook"
    /\ observed = <<>>
    /\ \E input_data \in StdinTexts, extract \in ContextOutcomes,
          validate \in ServiceOutcomes :
           observed' = <<[call |-> "handle_stop",
                          arg |-> [stdin |-> input_data, extract |-> extract,
                                   validate |-> validate],
                          value |-> handle_stop(input_data, extract, validate)]>>
    /\ PureFrame

HandlePostToolUse ==
    /\ mode = "hook"
    /\ observed = <<>>
    /\ \E input_data \in StdinTexts, status \in CompletionOutcomes :
           observed' = <<[call |-> "handle_post_tool_use",
                          arg |-> [stdin |-> input_data,
                                   check_completion_status |-> status],
                          value |-> handle_post_tool_use(input_data, status)]>>
    /\ PureFrame

NextHook == HandlePreToolUse \/ HandleStop \/ HandlePostToolUse

SpecHook == InitHook /\ [][NextHook]_vars

\* ------------------------------------------ execute() called a second time
\* A caller that runs execute() again on the store the first run left
InitAgain ==
    /\ Constructed
    /\ mode = "again"
    /\ pc = "idle"

\* The first call has returned without an error and without a failed
\* operation; the caller keeps its result and calls execute() once more.
\* The locals of the first call are gone; the history starts afresh.
ExecuteAgain ==
    /\ mode = "again"
    /\ pc = "done"
    /\ observed = <<>>
    /\ result.errors = <<>>
    /\ failures = 0
    /\ observed' = <<[call |-> "execute", value |-> result, local |-> local0,
                      left |-> local, protected_tags |-> protected_tags]>>
    /\ pc' = "idle"
    /\ to_rename' = <<>>
    /\ entry_idx' = 1
    /\ current_tags' = <<>>
    /\ tag_idx' = 1
    /\ existing_tags' = <<>>
    /\ ops' = <<>>
    /\ delete_from' = 0
    /\ local0' = local
    /\ remote0' = remoteStore
    /\ UNCHANGED <<local, remoteStore, releases, gh_repo, remote, protected_tags,
                   result, failures, mode, exit_code>>

NextAgain ==
    \/ StartExecute
    \/ StartExecuteRaises
    \/ RenameEntry
    \/ RenameRaises
    \/ BeginDelete
    \/ BeginDeleteRaises
    \/ DeleteTag
    \/ Finish
    \/ ExecuteAgain

SpecAgain == InitAgain /\ [][NextAgain]_vars

\* ================================================================ claims
Deletions == {"delete_local", "delete_remote"}

\* Positions of the history that belong to the delete phase
DeletePhaseOps == IF delete_from = 0 THEN {} ELSE (delete_from + 1)..Len(ops)

\* Does description d (an error or a rename description) name tag t?
Names(d, t) == \E k \in 2..Len(d) : d[k] = t

\* Number of positions of sequence s that equal x
Occurrences(s, x) == Cardinality({k \in 1..Len(s) : s[k] = x})

\* Entries whose target existed when the run started
ConflictEntries == {k \in 1..Len(to_rename) : to_rename[k].new_name \in DOMAIN local0}
SameCommitEntries ==
    {k \in ConflictEntries :
        local0[to_rename[k].old_name] = local0[to_rename[k].new_name]}
DifferentCommitEntries == ConflictEntries \ SameCommitEntries

\* Every store call of the run succeeded (hosted-release calls aside)
NoStoreFailure == \A k \in 1..Len(ops) : ops[k].op # "delete_release" => ops[k].ok

\* C1: no name in the protected set is deleted, locally or remotely, by the
\* delete phase of the same run, although every such name classifies as
\* DELETE: the delete phase issues no deletion for it and it stays in the
\* local store.
C1_ProtectedNeverDeleted ==
    /\ \A t \in protected_tags : classify_tag(t) = DELETE
    /\ \A k \in DeletePhaseOps :
           ops[k].op \in Deletions => ops[k].tag \notin protected_tags
    /\ pc \in {"delete", "done"} => protected_tags \subseteq DOMAIN local

\* C1 witness: a finished run whose delete loop visited a protected name and
\* deleted another tag, with failures injected on the way.
C1_Witness ==
    /\ pc = "done"
    /\ protected_tags \cap Range(current_tags) # {}
    /\ result.deleted_count > 0
    /\ failures > 0

\* C2: after a different-commit conflict between A and its target B, when
\* execute() has returned both A and B are still in the local store at their
\* original commits and exactly one error names both.
C2_DifferentCommitKeepsBoth ==
    pc = "done" =>
        \A k \in DifferentCommitEntries :
            LET a == to_rename[k].old_name
                b == to_rename[k].new_name
            IN  /\ a \in DOMAIN local /\ local[a] = local0[a]
                /\ b \in DOMAIN local /\ local[b] = local0[b]
                /\ Cardinality({j \in 1..Len(result.errors) :
                        Names(result.errors[j], a) /\ Names(result.errors[j], b)}) = 1

\* C3: a same-commit conflict in a run without store failures: A is deleted,
\* B still resolves to the common commit and is protected, the entry is
\* recorded once as "conflict resolved" and counted, and no error names A or B.
C3_SameCommitResolved ==
    (pc = "done" /\ NoStoreFailure) =>
        \A k \in SameCommitEntries :
            LET a == to_rename[k].old_name
                b == to_rename[k].new_name
            IN  /\ a \notin DOMAIN local
                /\ b \in DOMAIN local /\ local[b] = local0[a]
                /\ b \in protected_tags
                /\ Occurrences(result.renamed_tags, ConflictResolvedDesc(a, b)) = 1
                /\ result.renamed_count = Len(to_rename) - Cardinality(DifferentCommitEntries)
                /\ \A j \in 1..Len(result.errors) :
                       ~Names(result.errors[j], a) /\ ~Names(result.errors[j], b)

\* C3 witness: a finished failure-free run with a remote that resolved a
\* same-commit conflict.
C3_Witness ==
    /\ pc = "done"
    /\ NoStoreFailure
    /\ Truthy(remote)
    /\ SameCommitEntries # {}

\* C4: no failure of a store call aborts the run: execute() never raises, and
\* when it has returned every failed store call has its error in errors.
C4_NeverRaises ==
    /\ pc # "raised"
    /\ pc = "done" =>
           Cardinality({k \in 1..Len(ops) :
                           ~ops[k].ok /\ ops[k].op # "delete_release"})
               <= Len(result.errors)

\* ------------------------------------------------- failures and follow-ups
Recorded == {"create", "push", "delete_local", "delete_remote"}

\* The error execute() records for a failed call o
ErrorOf(o) ==
    CASE o.op = "create" -> CreateError(o.tag)
      [] o.op = "push" -> PushError(o.tag)
      [] o.op = "delete_local" -> DeleteLocalError(o.tag)
      [] o.op = "delete_remote" -> DeleteRemoteError(o.tag)

\* Positions of failed create, push and delete calls
FailedOps == {k \in 1..Len(ops) : ops[k].op \in Recorded /\ ~ops[k].ok}

\* The call after position k is op on tag
FollowedBy(k, op, tag) ==
    k < Len(ops) /\ ops[k + 1].op = op /\ ops[k + 1].tag = tag

\* The legacy tag whose rename target is new_tag
OldNameOf(new_tag) ==
    (CHOOSE e \in Range(to_rename) : e.new_name = new_tag).old_name

\* The result lists a rename of old_tag
RenameRecorded(old_tag) ==
    \E j \in 1..Len(result.renamed_tags) : result.renamed_tags[j][1] = old_tag

\* Every failed create, push or delete has its error in errors, once per failure
FailuresRecorded ==
    \A k \in FailedOps :
        Cardinality({j \in FailedOps : ops[j].op = ops[k].op /\ ops[j].tag = ops[k].tag})
            = Occurrences(result.errors, ErrorOf(ops[k]))

\* None of these failures ends the run: a run that raised ended on a failed
\* listing or commit lookup, and a finished run went through both loops.
RunGoesOn ==
    /\ pc = "raised" => /\ ops[Len(ops)].op \in {"list", "resolve"}
                        /\ ~ops[Len(ops)].ok
    /\ pc = "done" =>
           /\ Cardinality({k \in 1..Len(ops) : ops[k].op = "list"}) = Len(to_rename) + 2
           /\ entry_idx = Len(to_rename) + 1
           /\ tag_idx = Len(current_tags) + 1

\* After a failure in the rename loop: a creation failure ends its entry, any
\* other failure is followed by the rest of the entry.
RenameFollowUp(k) ==
    LET o == ops[k]
    IN  CASE o.op = "create" -> k = Len(ops) \/ ops[k + 1].op = "list"
          [] o.op = "push" -> FollowedBy(k, "delete_local", OldNameOf(o.tag))
          [] o.op = "delete_local" ->
                 /\ Truthy(remote) => FollowedBy(k, "delete_remote", o.tag)
                 /\ RenameRecorded(o.tag)
          [] o.op = "delete_remote" -> RenameRecorded(o.tag)

\* After a failure in the delete loop, were nothing cut short: the tag's
\* remaining steps (remote deletion, count, hosted-release deletion) follow.
DeleteFollowUpInFull(k) ==
    LET o == ops[k]
    IN  CASE o.op = "delete_local" ->
                 /\ Truthy(remote) => FollowedBy(k, "delete_remote", o.tag)
                 /\ o.tag \in Range(result.deleted_tags)
          [] o.op = "delete_remote" ->
                 /\ o.tag \in Range(result.deleted_tags)
                 /\ Truthy(gh_repo) => FollowedBy(k, "delete_release", o.tag)
          [] OTHER -> FALSE

\* After a failure in the delete loop, as the code has it: a failed local
\* deletion ends the tag's iteration.
DeleteFollowUp(k) ==
    LET o == ops[k]
    IN  CASE o.op = "delete_local" ->
                 /\ k = Len(ops) \/ ops[k + 1].tag # o.tag
                 /\ o.tag \notin Range(result.deleted_tags)
          [] o.op = "delete_remote" ->
                 /\ o.tag \in Range(result.deleted_tags)
                 /\ Truthy(gh_repo) => FollowedBy(k, "delete_release", o.tag)
          [] OTHER -> FALSE

\* C5 (as claimed): every failed create, local delete, push or remote delete
\* is recorded and the run goes on; only a creation failure cuts anything
\* short (the rest of its own rename entry).
C5_OnlyCreateFailureCutsShort ==
    /\ FailuresRecorded
    /\ RunGoesOn
    /\ \A k \in FailedOps \ DeletePhaseOps : RenameFollowUp(k)
    /\ \A k \in FailedOps \cap DeletePhaseOps : DeleteFollowUpInFull(k)

\* C5 (amended): every failed create, local delete, push or remote delete is
\* recorded and the run goes on to the next entry or tag; a creation failure
\* skips the rest of its rename entry and a failed local deletion in the
\* delete phase skips the rest of its tag (remote deletion, count,
\* hosted-release deletion); no other failure cuts anything short.
C5_FailuresRecordedRunGoesOn ==
    /\ FailuresRecorded
    /\ RunGoesOn
    /\ \A k \in FailedOps \ DeletePhaseOps : RenameFollowUp(k)
    /\ \A k \in FailedOps \cap DeletePhaseOps : DeleteFollowUp(k)

\* C5 witness: a finished run in which a push failed in the rename loop and
\* a local deletion failed in the delete loop.
C5_Witness ==
    /\ pc = "done"
    /\ \E k \in FailedOps \ DeletePhaseOps : ops[k].op = "push"
    /\ \E k \in FailedOps \cap DeletePhaseOps : ops[k].op = "delete_local"

\* Positions of the calls of kind op that failed
Failed(op) == {k \in 1..Len(ops) : ops[k].op = op /\ ~ops[k].ok}

\* Errors that name tag t
ErrorsNaming(t) == {j \in 1..Len(result.errors) : Names(result.errors[j], t)}

\* Number of conflict errors recorded
ConflictErrors ==
    Cardinality({j \in 1..Len(result.errors) : result.errors[j][1] = "Conflict"})

\* C6: when creating new_name fails, exactly one error is recorded for the
\* entry, old_name is untouched (no deletion issued for it, still in the
\* local store at its commit), no push of new_name is issued, new_name is not
\* protected and the entry is not counted in renamed_count.
C6_CreationFailureSkipsEntry ==
    /\ \A k \in Failed("create") :
        LET new_tag == ops[k].tag
            old_tag == OldNameOf(new_tag)
        IN  /\ Cardinality(ErrorsNaming(new_tag) \cup ErrorsNaming(old_tag)) = 1
            /\ Occurrences(result.errors, CreateError(new_tag)) = 1
            /\ \A j \in 1..Len(ops) :
                   ops[j].op \in Deletions => ops[j].tag # old_tag
            /\ old_tag \in DOMAIN local /\ local[old_tag] = local0[old_tag]
            /\ \A j \in 1..Len(ops) : ops[j].op = "push" => ops[j].tag # new_tag
            /\ new_tag \notin protected_tags
            /\ ~RenameRecorded(old_tag)
    /\ result.renamed_count =
           (entry_idx - 1) - Cardinality(Failed("create")) - ConflictErrors

\* C6 witness: a finished run with a remote in which a creation failed and
\* another entry was renamed.
C6_Witness ==
    /\ pc = "done"
    /\ Truthy(remote)
    /\ Failed("create") # {}
    /\ result.renamed_count > 0

\* What C7 says of the entry of every failed push: the error is recorded, the
\* old tag's local and remote deletions are issued next, the new tag is
\* protected and the rename is recorded and counted.
PushFailureIsSoft ==
    /\ \A k \in Failed("push") :
        LET new_tag == ops[k].tag
            old_tag == OldNameOf(new_tag)
        IN  /\ PushError(new_tag) \in Range(result.errors)
            /\ FollowedBy(k, "delete_local", old_tag)
            /\ FollowedBy(k + 1, "delete_remote", old_tag)
            /\ new_tag \in protected_tags
            /\ Occurrences(result.renamed_tags, RenamedDesc(old_tag, new_tag)) = 1
    /\ result.renamed_count = Len(result.renamed_tags)

\* C7 (as claimed): a push failure is fail-soft, so the run ends with errors
\* non-empty and old_name gone locally.
C7_PushFailureOldGone ==
    /\ PushFailureIsSoft
    /\ pc = "done" =>
           \A k \in Failed("push") :
               /\ result.errors # <<>>
               /\ OldNameOf(ops[k].tag) \notin DOMAIN local

\* C7 (amended): a push failure is fail-soft, so the run ends with errors
\* non-empty and with old_name gone locally unless the local deletion of
\* old_name failed as well (its error is then recorded too).
C7_PushFailureSoft ==
    /\ PushFailureIsSoft
    /\ pc = "done" =>
           \A k \in Failed("push") :
               LET old_tag == OldNameOf(ops[k].tag)
               IN  /\ result.errors # <<>>
                   /\ \/ old_tag \notin DOMAIN local
                      \/ /\ DeleteLocalError(old_tag) \in Range(result.errors)
                         /\ old_tag \in DOMAIN local

\* C7 witness: a finished run in which a push failed and the old tag is gone.
C7_Witness ==
    /\ pc = "done"
    /\ \E k \in Failed("push") :
           /\ ops[k].inj
           /\ OldNameOf(ops[k].tag) \notin DOMAIN local
           /\ ops[k].tag \in DOMAIN local

\* Calls that belong to the rename phase: create, push, deletion of a legacy tag
RenameAction(o) ==
    \/ o.op \in {"create", "push"}
    \/ o.op \in Deletions /\ classify_tag(o.tag) = RENAME

\* Calls that belong to the delete phase: deletion of a DELETE-classified
\* tag, deletion of a hosted release
DeleteAction(o) ==
    \/ o.op \in Deletions /\ classify_tag(o.tag) = DELETE
    \/ o.op = "delete_release"

\* C8: the two phases are strictly ordered: a delete-phase call is issued
\* only when the last rename entry has been processed, and no rename-phase
\* call follows a delete-phase call.
C8_PhasesOrdered ==
    /\ (\E k \in 1..Len(ops) : DeleteAction(ops[k])) => entry_idx = Len(to_rename) + 1
    /\ \A j, k \in 1..Len(ops) :
           (j < k /\ DeleteAction(ops[j])) => ~RenameAction(ops[k])

\* C8 witness: a finished run that issued calls of both phases.
C8_Witness ==
    /\ pc = "done"
    /\ Len(to_rename) = MaxVersion
    /\ Cardinality({k \in 1..Len(ops) : RenameAction(ops[k])}) >= 2
    /\ \E k \in 1..Len(ops) : DeleteAction(ops[k])

\* The remote held the same tags as the local store when the run started
Mirrored == Truthy(remote) /\ remote0 = local0

\* C9 (as claimed): with a mirroring remote, after execute() returns every
\* tag absent from the local store is absent from the remote store.
C9_AbsentLocallyAbsentRemotely ==
    (pc = "done" /\ Mirrored) => DOMAIN remoteStore \subseteq DOMAIN local

\* C9 (amended): with a mirroring remote, after execute() returns every tag
\* absent from the local store is absent from the remote store, unless the
\* remote deletion of that tag failed (its error is recorded).
C9_AbsentRemotelyUnlessDeleteFailed ==
    (pc = "done" /\ Mirrored) =>
        \A t \in DOMAIN remoteStore \ DOMAIN local :
            DeleteRemoteError(t) \in Range(result.errors)

\* C9 witness: a finished run against a mirroring remote that deleted tags
\* of both phases on both sides, with a push failure on the way.
C9_Witness ==
    /\ pc = "done"
    /\ Mirrored
    /\ Failed("push") # {}
    /\ \E t \in DOMAIN local0 \ DOMAIN local :
           classify_tag(t) = RENAME /\ t \notin DOMAIN remoteStore
    /\ \E t \in DOMAIN local0 \ DOMAIN local :
           classify_tag(t) = DELETE /\ t \notin DOMAIN remoteStore

\* Names the result records as rename targets
RenamedTargets == {result.renamed_tags[j][3] : j \in 1..Len(result.renamed_tags)}

\* C10 (as claimed): with a remote, after execute() returns every new_name
\* recorded as renamed is in the remote store and in the local store.
C10_RenamesMirrored ==
    (pc = "done" /\ Truthy(remote)) =>
        \A t \in RenamedTargets : t \in DOMAIN remoteStore /\ t \in DOMAIN local

\* C10 (amended): with a remote, after execute() returns every new_name
\* recorded as renamed is in the local store, and it is in the remote store
\* too unless its push failed (the error is recorded) or the rename was a
\* resolved conflict, which pushes nothing, and the remote did not hold the
\* target when the run started.
C10_RenamesMirroredUnlessPushFailed ==
    (pc = "done" /\ Truthy(remote)) =>
        \A t \in RenamedTargets :
            /\ t \in DOMAIN local
            /\ \/ t \in DOMAIN remoteStore
               \/ PushError(t) \in Range(result.errors)
               \/ /\ ConflictResolvedDesc(OldNameOf(t), t) \in Range(result.renamed_tags)
                  /\ t \notin DOMAIN remote0

\* C10 witness: a finished run with a remote that recorded a created rename
\* and a resolved conflict, both targets present on both sides.
C10_Witness ==
    /\ pc = "done"
    /\ Truthy(remote)
    /\ \E t \in RenamedTargets :
           /\ RenamedDesc(OldNameOf(t), t) \in Range(result.renamed_tags)
           /\ t \in DOMAIN remoteStore /\ t \in DOMAIN local
           /\ t \notin DOMAIN remote0
    /\ \E t \in RenamedTargets :
           /\ ConflictResolvedDesc(OldNameOf(t), t) \in Range(result.renamed_tags)
           /\ t \in DOMAIN remoteStore /\ t \in DOMAIN local

C15_RenamePreservesCommit ==
    /\ \A k \in 1..Len(ops) :
           (ops[k].op = "create" /\ ops[k].ok) =>
               /\ ops[k].tag \in DOMAIN local
               /\ local[ops[k].tag] = local0[OldNameOf(ops[k].tag)]
    /\ pc = "done" =>
           \A e \in Range(to_rename) :
               RenamedDesc(e.old_name, e.new_name) \in Range(result.renamed_tags) =>
                   /\ e.new_name \notin DOMAIN local0
                   /\ e.new_name \in DOMAIN local
                   /\ local[e.new_name] = local0[e.old_name]

\* C15 witness: a finished run with a remote that created a rename target,
\* beside a plain tag sitting on the other commit.
C15_Witness ==
    /\ pc = "done"
    /\ Truthy(remote)
    /\ \E e \in Range(to_rename) :
           /\ RenamedDesc(e.old_name, e.new_name) \in Range(result.renamed_tags)
           /\ e.old_name \notin DOMAIN local
    /\ \E t \in DOMAIN local0 : local0[t] = CommitB

\* Delete-phase calls of kind op on tag t
PhaseTwo(op, t) == {k \in DeletePhaseOps : ops[k].op = op /\ ops[k].tag = t}

\* C16: in the delete phase a remote deletion or a hosted-release deletion of
\* a tag is issued only after that tag's local deletion succeeded; after a
\* failed local deletion neither is issued, the tag is not in deleted_tags,
\* one error is recorded for the deletion, and deleted_count counts exactly
\* the successful local deletions.
C16_LocalDeletionFirst ==
    /\ \A k \in DeletePhaseOps :
           ops[k].op \in {"delete_remote", "delete_release"} =>
               \E j \in PhaseTwo("delete_local", ops[k].tag) : j < k /\ ops[j].ok
    /\ \A k \in DeletePhaseOps :
           (ops[k].op = "delete_local" /\ ~ops[k].ok) =>
               /\ PhaseTwo("delete_remote", ops[k].tag) = {}
               /\ PhaseTwo("delete_release", ops[k].tag) = {}
               /\ ops[k].tag \notin Range(result.deleted_tags)
               /\ Occurrences(result.errors, DeleteLocalError(ops[k].tag)) = 1
    /\ result.deleted_count =
           Cardinality({k \in DeletePhaseOps : ops[k].op = "delete_local" /\ ops[k].ok})
    /\ result.deleted_count = Len(result.deleted_tags)

\* C16 witness: a finished run with a remote and a hosted repository in which
\* one tag's local deletion failed and another tag went through all three
\* deletions.
C16_Witness ==
    /\ pc = "done"
    /\ Truthy(remote)
    /\ Truthy(gh_repo)
    /\ \E k \in DeletePhaseOps : ops[k].op = "delete_local" /\ ~ops[k].ok
    /\ \E k \in DeletePhaseOps : ops[k].op = "delete_release" /\ ops[k].ok

\* C17: a failed hosted-release deletion is swallowed: errors holds only the
\* errors of the failed store calls and of the conflicts, the tag is counted
\* once in deleted_tags and deleted_count, its local deletion stands, the
\* remote store holds it only if its remote deletion failed, the release is
\* still there when the failure was not the store's, and the delete loop goes
\* on: the next call, if any, is the local deletion of a later tag, and a
\* finished run has tried every unprotected DELETE tag of the list.
C17_ReleaseFailureSwallowed ==
    /\ Len(result.errors) = Cardinality(FailedOps) + ConflictErrors
    /\ \A k \in Failed("delete_release") :
        LET t == ops[k].tag
        IN  /\ ErrorsNaming(t) \subseteq
                   {j \in 1..Len(result.errors) :
                       result.errors[j] = DeleteRemoteError(t)
                       \/ result.errors[j][1] = "Conflict"}
            /\ Occurrences(result.deleted_tags, t) = 1
            /\ result.deleted_count = Len(result.deleted_tags)
            /\ t \notin DOMAIN local
            /\ t \in DOMAIN remoteStore <=>
                   (t \in DOMAIN remote0 /\
                       (Truthy(remote) => DeleteRemoteError(t) \in Range(result.errors)))
            /\ ops[k].inj => t \in releases
            /\ k < Len(ops) =>
                   /\ ops[k + 1].op = "delete_local"
                   /\ StrLess(t, ops[k + 1].tag)
    /\ pc = "done" =>
           \A t \in Range(current_tags) :
               (~IsProtected(t, protected_tags) /\ ShouldDelete(t)) =>
                   PhaseTwo("delete_local", t) # {}

\* C17 witness: a finished run in which a hosted-release deletion failed for
\* one tag and a later tag was deleted, with no error recorded.
C17_Witness ==
    /\ pc = "done"
    /\ result.errors = <<>>
    /\ result.deleted_count = 2
    /\ \E k \in Failed("delete_release") : ops[k].inj /\ k < Len(ops)

\* C18: without a remote name execute() issues no push, no remote deletion
\* and no hosted-release deletion, whatever gh_repo is.
C18_NoRemoteNoRemoteCalls ==
    ~Truthy(remote) =>
        \A k \in 1..Len(ops) :
            ops[k].op \notin {"push", "delete_remote", "delete_release"}

\* A rename iteration ran to its end in this step
RenameIterationDone == pc = "rename" /\ pc' = "rename" /\ entry_idx' = entry_idx + 1

\* The calls this step issued
NewOps == {ops'[k] : k \in (Len(ops) + 1)..Len(ops')}

\* C20: the target-exists check of a rename iteration uses the tag list of
\* the store as it is when the iteration starts (every earlier mutation
\* included): the list is the store's, and the iteration takes the conflict
\* branch exactly when the target is in the store; the delete phase iterates
\* over the list of the store as it is when the rename phase is over, read
\* after the last rename entry and kept as read.
C20_RereadAtCheckpoints ==
    [][ /\ RenameIterationDone =>
              /\ existing_tags' = Sorted(DOMAIN local)
              /\ to_rename[entry_idx].new_name \in DOMAIN local <=>
                     (\A o \in NewOps : o.op # "create")
        /\ (pc = "rename" /\ pc' = "delete") =>
              /\ current_tags' = Sorted(DOMAIN local)
              /\ entry_idx = Len(to_rename) + 1
        /\ pc = "delete" => current_tags' = current_tags ]_vars

\* C20 witness: a finished run whose second rename iteration read a list
\* holding the target the first iteration created, and whose delete phase
\* read a list that differs from the one the run started with.
C20_Witness ==
    /\ pc = "done"
    /\ \E t \in Range(existing_tags) : t \notin DOMAIN local0
    /\ current_tags # Sorted(DOMAIN local0)
    /\ \E t \in Range(current_tags) : t \in protected_tags /\ t \notin DOMAIN local0

\* ---------------------------------------------------- plan() and audit()
\* The plans the caller has seen
Plans == {observed[k].value : k \in {j \in 1..Len(observed) : observed[j].call = "plan"}}

OldNames(p) == {p.to_rename[i].old_name : i \in 1..Len(p.to_rename)}
DeleteNames(p) == {p.to_delete[i].name : i \in 1..Len(p.to_delete)}

\* C12: every plan partitions the current tag set: the old names of
\* to_rename and the names of to_delete together are the tags of the store,
\* no name is in both or listed twice, every to_delete entry is classified
\* DELETE and every to_rename entry is a legacy tag with its rename target.
C12_PlanPartitions ==
    \A p \in Plans :
        /\ OldNames(p) \cup DeleteNames(p) = DOMAIN local
        /\ OldNames(p) \cap DeleteNames(p) = {}
        /\ Len(p.to_rename) + Len(p.to_delete) = Cardinality(DOMAIN local)
        /\ \A i \in 1..Len(p.to_delete) :
               /\ p.to_delete[i].classification = DELETE
               /\ classify_tag(p.to_delete[i].name) = DELETE
        /\ \A i \in 1..Len(p.to_rename) :
               /\ classify_tag(p.to_rename[i].old_name) = RENAME
               /\ p.to_rename[i].new_name = rename_target(p.to_rename[i].old_name)

\* C12 witness: a plan of a store that holds legacy tags, plain tags and the
\* other tag.
C12_Witness ==
    /\ DOMAIN local = TagNames
    /\ \E p \in Plans : Len(p.to_rename) = MaxVersion /\ Len(p.to_delete) = MaxVersion + 1

\* C13: two plan() calls with no mutation of the store in between return
\* equal plans: the same to_rename entries and the same to_delete entries in
\* the same order, whatever order git listed the tags in.
C13_PlanDeterministic ==
    \A j, k \in 1..Len(observed) :
        (observed[j].call = "plan" /\ observed[k].call = "plan") =>
            /\ observed[j].value.to_rename = observed[k].value.to_rename
            /\ observed[j].value.to_delete = observed[k].value.to_delete

\* C13 witness: two plan() calls on an unchanged store for which git printed
\* the tags in two different orders.
C13_Witness ==
    /\ local = local0
    /\ \E j, k \in 1..Len(observed) :
           /\ j < k
           /\ observed[j].call = "plan" /\ observed[k].call = "plan"
           /\ observed[j].lines # observed[k].lines
           /\ Len(observed[j].value.to_rename) > 1
           /\ Len(observed[j].value.to_delete) > 1

\* The hosted releases before any call
Releases0 == IF Truthy(gh_repo) THEN {t \in DOMAIN local0 : t # OtherName} ELSE {}

\* C14: audit() and plan() are read-only: after any number of calls, failed
\* ones included, the local store, the remote store and the hosted releases
\* are what they were: the same tags at the same commits.
C14_ReadOnly ==
    /\ local = local0
    /\ remoteStore = remote0
    /\ releases = Releases0
    /\ \A t \in DOMAIN local0 : t \in DOMAIN local /\ local[t] = local0[t]

\* C14 witness: a plan() call and an audit() call were made on a store with
\* tags to rename and to delete, a remote that holds none of them and hosted
\* releases.
C14_Witness ==
    /\ \E j, k \in 1..Len(observed) :
           observed[j].call = "plan" /\ observed[k].call = "audit"
    /\ \E t \in DOMAIN local : classify_tag(t) = RENAME
    /\ \E t \in DOMAIN local : classify_tag(t) = DELETE
    /\ Truthy(remote) /\ remoteStore # local
    /\ releases # {}

\* C19: main() returns only when its mode has run to its end: in the audit
\* and plan modes it returns 0; in the execute mode it returns after
\* execute() has gone through both loops, 0 if errors is empty and 1
\* otherwise.  Until then no exit code is decided.
C19_ExitCode ==
    /\ exit_code # <<>> <=> pc = "exit"
    /\ (pc = "exit" /\ mode \in {"audit", "plan"}) =>
           /\ exit_code = <<0>>
           /\ Len(observed) = 1 /\ observed[1].call = mode
    /\ (pc = "exit" /\ mode = "execute") =>
           /\ exit_code \in {<<0>>, <<1>>}
           /\ exit_code = <<0>> <=> result.errors = <<>>
           /\ delete_from > 0
           /\ entry_idx = Len(to_rename) + 1
           /\ tag_idx = Len(current_tags) + 1

\* C19 witness: main() returned 1 from an execute run that recorded an error
\* after renaming one tag and deleting another.
C19_Witness ==
    /\ pc = "exit"
    /\ mode = "execute"
    /\ exit_code = <<1>>
    /\ result.renamed_count > 0
    /\ result.deleted_count > 0
    /\ Failed("delete_remote") # {}

\* ------------------------------------------------ the two pure functions
\* The legacy prefix and the new prefix as the specification spells them
LegacyPrefix == <<110, 87, 97, 118, 101, 95, 118>>
NewPrefix == <<118>>

\* T begins with the characters of p
BeginsWith(T, p) == Len(T) >= Len(p) /\ \A i \in 1..Len(p) : T[i] = p[i]

\* The tails of T
TailsOf(T) == {SubSeq(T, n, Len(T)) : n \in 1..(Len(T) + 1)}

\* The applications of function f seen
Applied(f) == {observed[k] : k \in {j \in 1..Len(observed) : observed[j].call = f}}

\* C21: classify_tag(T) is RENAME exactly when T begins with "nWave_v" and
\* DELETE otherwise, whatever the repository holds.
C21_ClassifyByPrefix ==
    \A a \in Applied("classify_tag") :
        /\ a.value \in {RENAME, DELETE}
        /\ a.value = RENAME <=> BeginsWith(a.arg, LegacyPrefix)
        /\ a.value = DELETE <=> ~BeginsWith(a.arg, LegacyPrefix)

\* C21 witness: classify_tag was applied to a name that holds the prefix
\* but does not begin with it, in a repository that holds legacy tags.
C21_Witness ==
    /\ \E a \in Applied("classify_tag") :
           /\ ~BeginsWith(a.arg, LegacyPrefix)
           /\ \E x \in TailsOf(a.arg) : BeginsWith(x, LegacyPrefix)
           /\ a.value = DELETE
    /\ \E t \in DOMAIN local : BeginsWith(t, LegacyPrefix)

\* C22: rename_target("nWave_v" + s) is "v" + s for every suffix s, and
\* every entry of a plan has the legacy prefix of its old name replaced by
\* "v" in its new name.
C22_RenameTargetSwapsPrefix ==
    /\ \A a \in Applied("rename_target") :
           \A x \in TailsOf(a.arg) :
               a.arg = LegacyPrefix \o x => a.value = NewPrefix \o x
    /\ \A a \in Applied("plan") :
           \A i \in 1..Len(a.value.to_rename) :
               \E x \in TailsOf(a.value.to_rename[i].old_name) :
                   /\ a.value.to_rename[i].old_name = LegacyPrefix \o x
                   /\ a.value.to_rename[i].new_name = NewPrefix \o x

\* C22 witness: rename_target was applied to a legacy name with a suffix of
\* full length that itself holds a "v".
C22_Witness ==
    \E a \in Applied("rename_target") :
        /\ BeginsWith(a.arg, LegacyPrefix)
        /\ Len(a.arg) = Len(LegacyPrefix) + MaxSuffixLen
        /\ a.arg[Len(a.arg)] = 118
        /\ Len(a.value) = 1 + MaxSuffixLen

\* The audit reports the caller has seen
Reports == {observed[k].value : k \in {j \in 1..Len(observed) : observed[j].call = "audit"}}

\* C23: an audit report lists every tag of the store once, in ascending
\* order of the names, each with the classification of its name, and
\* total = rename_count + delete_count = the number of tags in the store.
C23_AuditListsAll ==
    \A r \in Reports :
        /\ {r.tags[i].name : i \in 1..Len(r.tags)} = DOMAIN local
        /\ \A i, j \in 1..Len(r.tags) :
               i < j => StrLess(r.tags[i].name, r.tags[j].name)
        /\ \A i \in 1..Len(r.tags) :
               r.tags[i].classification =
                   IF BeginsWith(r.tags[i].name, LegacyPrefix) THEN RENAME ELSE DELETE
        /\ total(r) = rename_count(r) + delete_count(r)
        /\ total(r) = Cardinality(DOMAIN local)
        /\ rename_count(r) =
               Cardinality({t \in DOMAIN local : BeginsWith(t, LegacyPrefix)})

\* C23 witness: an audit of a store holding every tag of the model, whose
\* names git printed in descending order.
C23_Witness ==
    \E k \in 1..Len(observed) :
        /\ observed[k].call = "audit"
        /\ DOMAIN local = TagNames
        /\ observed[k].lines = Reverse(Sorted(DOMAIN local))
        /\ rename_count(observed[k].value) = MaxVersion
        /\ delete_count(observed[k].value) = MaxVersion + 1

\* Legacy and other tags the run started with
LegacyTags0 == {t \in DOMAIN local0 : classify_tag(t) = RENAME}
PlainTags0 == DOMAIN local0 \ LegacyTags0

\* No legacy tag's rename target was in the store when the run started
NoConflict0 == \A t \in LegacyTags0 : rename_target(t) \notin DOMAIN local0

\* C24: a run without a remote on a store without rename-target conflicts,
\* in which no operation fails, renames every legacy tag, deletes every
\* other tag, records no error and leaves exactly the rename targets, each
\* at the commit of its legacy tag.
C24_CleanRun ==
    (pc = "done" /\ ~Truthy(remote) /\ NoConflict0 /\ failures = 0) =>
        /\ result.renamed_count = Cardinality(LegacyTags0)
        /\ Len(result.renamed_tags) = Cardinality(LegacyTags0)
        /\ result.deleted_count = Cardinality(PlainTags0)
        /\ Range(result.deleted_tags) = PlainTags0
        /\ result.errors = <<>>
        /\ DOMAIN local = {rename_target(t) : t \in LegacyTags0}
        /\ \A t \in LegacyTags0 : local[rename_target(t)] = local0[t]

\* C24 witness: such a run on a store with a legacy tag and more than one
\* other tag, one of them a plain version tag.
C24_Witness ==
    /\ pc = "done"
    /\ ~Truthy(remote)
    /\ NoConflict0
    /\ failures = 0
    /\ LegacyTags0 # {}
    /\ Cardinality(PlainTags0) > 1
    /\ result.renamed_count = Cardinality(LegacyTags0)
    /\ result.deleted_count = Cardinality(PlainTags0)

\* C25: on an empty tag store an audit reports zero for its three counts, a
\* plan has no entry, and execute() returns zero counts, empty lists and no
\* error, having issued nothing but tag listings and changed no store.
C25_EmptyStore ==
    local0 = EmptyStore =>
        /\ \A r \in Reports :
               total(r) = 0 /\ rename_count(r) = 0 /\ delete_count(r) = 0
        /\ \A p \in Plans : p.to_rename = <<>> /\ p.to_delete = <<>>
        /\ pc \in {"done", "exit"} =>
               /\ result.renamed_count = 0 /\ result.renamed_tags = <<>>
               /\ result.deleted_count = 0 /\ result.deleted_tags = <<>>
               /\ result.errors = <<>>
        /\ \A k \in 1..Len(ops) : ops[k].op = "list"
        /\ local = EmptyStore
        /\ remoteStore = remote0
        /\ releases = Releases0

\* C25 witness: main() returned from an execute run with a remote on an
\* empty store, after printing the plan.
C25_Witness ==
    /\ local0 = EmptyStore
    /\ pc = "exit"
    /\ mode = "execute"
    /\ Truthy(remote)
    /\ Plans # {}
    /\ Len(ops) = 2

\* A tag listing or a commit lookup of the run failed
ReadFailed ==
    \E k \in 1..Len(ops) : ops[k].op \in {"list", "resolve"} /\ ~ops[k].ok

\* What is left of the phase the run is in
PhaseRank ==
    CASE pc = "idle" -> 3
      [] pc = "rename" -> 2
      [] pc = "delete" -> 1
      [] OTHER -> 0
Remaining ==
    CASE pc = "rename" -> Len(to_rename) + 1 - entry_idx
      [] pc = "delete" -> Len(current_tags) + 1 - tag_idx
      [] OTHER -> 0

\* Failures of the calls that change a store
WriteFailures == FailKinds \ {"list", "resolve"}

\* What the next step of the run makes of the machine under failure pattern F
StepResult(F) ==
    CASE pc = "idle" -> ListTags(Machine, F)
      [] pc = "rename" /\ ~RenamePhaseOver(entry_idx, to_rename) ->
             RenameIteration(Machine, to_rename[entry_idx], remote, F)
      [] pc = "rename" /\ RenamePhaseOver(entry_idx, to_rename) ->
             ListTags(Machine, F)
      [] pc = "delete" /\ tag_idx <= Len(current_tags) ->
             DeleteIteration(Machine, current_tags[tag_idx], remote, gh_repo, F)
      [] OTHER -> Machine

\* Until the run has returned its next step can be taken, and it raises
\* nothing whatever create, push and delete calls fail in it
StepsOn ==
    pc \in {"idle", "rename", "delete"} =>
        /\ UsesFailures({}, Machine, StepResult({}))
        /\ \A F \in SUBSET WriteFailures : ~StepResult(F).raised

\* C26: whatever create, push and delete calls fail, a run in which no
\* listing and no commit lookup fails reaches its end and returns: until it
\* has returned its next step can be taken and raises nothing, every step
\* takes the run to a later phase or leaves fewer entries or tags of its
\* phase (so the steps are finitely many), and nothing but a failed listing
\* or lookup raises; a run that returned has processed each rename entry
\* once and visited each delete-phase tag once.
C26_RunCompletes ==
    /\ [](StepsOn)
    /\ [][ \/ PhaseRank' < PhaseRank
           \/ PhaseRank' = PhaseRank /\ Remaining' < Remaining ]_vars
    /\ [](Remaining >= 0)
    /\ [](pc = "raised" => ReadFailed)
    /\ [](pc = "done" =>
              /\ entry_idx = Len(to_rename) + 1
              /\ tag_idx = Len(current_tags) + 1
              /\ Cardinality({k \in 1..Len(ops) : ops[k].op = "list"})
                     = Len(to_rename) + 2)

\* C26 witness: a run that returned although a creation, a push and a
\* deletion failed on the way.
C26_Witness ==
    /\ pc = "done"
    /\ ~ReadFailed
    /\ failures = MaxFailures
    /\ Failed("create") \cup Failed("push") # {}
    /\ Failed("delete_local") \cup Failed("delete_remote") # {}

\* The target of legacy tag t is in the local store at the commit t had
\* when the run started
TargetHolds(t) ==
    /\ rename_target(t) \in DOMAIN local
    /\ local[rename_target(t)] = local0[t]

\* C30: no legacy commit pointer is lost: whenever the run has issued a
\* local or remote deletion of a legacy tag, and whenever a legacy tag is
\* gone from the local store, its target is in the local store at the commit
\* the legacy tag resolved to; a legacy tag whose target is missing or
\* elsewhere is still there, at its commit.
C30_NoPointerLost ==
    /\ \A k \in 1..Len(ops) :
           (ops[k].op \in Deletions /\ classify_tag(ops[k].tag) = RENAME) =>
               TargetHolds(ops[k].tag)
    /\ \A t \in LegacyTags0 :
           \/ TargetHolds(t)
           \/ t \in DOMAIN local /\ local[t] = local0[t]

\* C30 witness: a finished run with a remote that deleted one legacy tag
\* after creating its target and kept another whose target points elsewhere.
C30_Witness ==
    /\ pc = "done"
    /\ Truthy(remote)
    /\ \E t \in LegacyTags0 :
           /\ t \notin DOMAIN local
           /\ rename_target(t) \notin DOMAIN local0
           /\ TargetHolds(t)
    /\ \E t \in LegacyTags0 : t \in DOMAIN local /\ ~TargetHolds(t)

\* ------------------------------------------------------------ the CI gate
\* The check-runs of application a that are not the calling workflow's
Remaining27(a) ==
    LET runs == IF "check_runs" \in DOMAIN a.arg.response_data
                THEN a.arg.response_data.check_runs ELSE <<>>
    IN  {runs[i] : i \in {j \in 1..Len(runs) :
            a.arg.self_workflow \in {NoneVal, ""} \/ runs[j].name # a.arg.self_workflow}}

\* C27: evaluate_check_runs returns green (0) only when every check-run left
\* after excluding the calling workflow is completed with conclusion
\* success; otherwise none (3) when no check-run is left, failed (1) when
\* one has conclusion failure, pending (2) when one is not completed and
\* none has failed.
C27_GreenOnlyAllSuccess ==
    \A a \in Applied("evaluate_check_runs") :
        LET left == Remaining27(a)
            allpass == left # {} /\ \A r \in left :
                           r.status = "completed" /\ r.conclusion = "success"
            anyfail == \E r \in left : r.conclusion = "failure"
            anypending == \E r \in left : r.status # "completed"
        IN  /\ a.value.status = "green" => allpass
            /\ allpass => a.value.status = "green" /\ a.value.exit_code = 0
            /\ ~allpass =>
                  /\ left = {} => a.value.status = "none" /\ a.value.exit_code = 3
                  /\ anyfail => a.value.status = "failed" /\ a.value.exit_code = 1
                  /\ (anypending /\ ~anyfail) =>
                         a.value.status = "pending" /\ a.value.exit_code = 2

\* -------------------------------------------------- the OpenCode handlers
\* Application a of handle_stop got a JSON dict on stdin
StopParsed(a) ==
    /\ ~_read_and_parse_stdin(a.arg.stdin).is_empty
    /\ _read_and_parse_stdin(a.arg.stdin).parse_error = NoneVal
    /\ json_loads(a.arg.stdin).value.type = "dict"

\* ... naming a transcript in which a DES context was found
DesSession(a) ==
    /\ StopParsed(a)
    /\ "transcript_path" \in DOMAIN json_loads(a.arg.stdin).value.items
    /\ a.arg.extract.kind = "returns"

\* ... naming no transcript, or one without a DES context
NonDesSession(a) ==
    /\ StopParsed(a)
    /\ \/ "transcript_path" \notin DOMAIN json_loads(a.arg.stdin).value.items
       \/ a.arg.extract.kind = "none"

\* The stop service was asked and its decision is not allow
GateFails(a) ==
    DesSession(a) /\ a.arg.validate.kind = "returns" /\ a.arg.validate.action # "allow"

GatePasses(a) ==
    DesSession(a) /\ a.arg.validate.kind = "returns" /\ a.arg.validate.action = "allow"

\* Invalid JSON, JSON that is no dict, or a collaborator that raises
StopErrs(a) ==
    /\ ~_read_and_parse_stdin(a.arg.stdin).is_empty
    /\ ~GateFails(a) /\ ~GatePasses(a) /\ ~NonDesSession(a)

\* C28: handle_stop returns 2 when the step-completion gate fails (the stop
\* service's decision is not allow), 0 when the gate passes or the session
\* is not a DES session, and 1 when an error occurs.
C28_StopExitCodes ==
    \A a \in Applied("handle_stop") :
        /\ GateFails(a) => a.value.exit_code = 2
        /\ (GatePasses(a) \/ NonDesSession(a)) => a.value.exit_code = 0
        /\ StopErrs(a) => a.value.exit_code = 1

\* Application a got JSON on stdin that json.loads accepts
Parsed(a) ==
    /\ ~_read_and_parse_stdin(a.arg.stdin).is_empty
    /\ _read_and_parse_stdin(a.arg.stdin).parse_error = NoneVal

InvalidJson(a) == _read_and_parse_stdin(a.arg.stdin).parse_error # NoneVal

\* The stdin of application a is a dict whose args, if any, are a dict
WellFormed(a) ==
    /\ Parsed(a)
    /\ json_loads(a.arg.stdin).value.type = "dict"
    /\ "args" \in DOMAIN json_loads(a.arg.stdin).value.items =>
           json_loads(a.arg.stdin).value.items.args.type = "dict"

\* An exception escapes the body of handle_pre_tool_use
PreToolUseRaises(a) ==
    Parsed(a) /\ (~WellFormed(a) \/ a.arg.validate.kind = "raises")

\* C29: handle_post_tool_use returns 0 on every path (empty stdin, invalid
\* JSON, normal completion, an exception raised by the service), whereas
\* handle_pre_tool_use returns 1 on invalid JSON and on any unexpected
\* exception.
C29_PostNeverBlocksPreFailsClosed ==
    /\ \A a \in Applied("handle_post_tool_use") : a.value.exit_code = 0
    /\ \A a \in Applied("handle_pre_tool_use") :
           (InvalidJson(a) \/ PreToolUseRaises(a)) => a.value.exit_code = 1

\* The service raised inside handle_post_tool_use, on well-formed input
C29_Witness ==
    \E a \in Applied("handle_post_tool_use") :
        /\ WellFormed(a)
        /\ a.arg.check_completion_status.kind = "raises"
        /\ a.value.exit_code = 0

\* ------------------------------------------------------------ a second run
\* The second call of execute() is under way or over
SecondRun == mode = "again" /\ observed # <<>> /\ pc # "idle"

\* The names the first run created
CreatedByFirst == DOMAIN observed[1].left \ DOMAIN observed[1].local

LeftBehind ==
    {k \in 1..Len(to_rename) :
        \/ k \in DifferentCommitEntries
        \/ \E j \in Failed("create") : ops[j].tag = to_rename[k].new_name
        \/ \E j \in Failed("delete_local") : ops[j].tag = to_rename[k].old_name}

\* C32: every name in deleted_tags classifies as DELETE and is not in the
\* protected set, the delete phase issues no deletion for a legacy-prefixed
\* name, and a legacy tag left behind by the rename phase (different-commit
\* conflict, creation failure, failed local deletion) is still in the local
\* store, at its commit, when execute() returns.
C32_LegacyNeverDeleted ==
    /\ \A t \in Range(result.deleted_tags) :
           classify_tag(t) = DELETE /\ t \notin protected_tags
    /\ \A k \in DeletePhaseOps :
           ops[k].op \in Deletions \cup {"delete_release"} =>
               classify_tag(ops[k].tag) = DELETE
    /\ pc = "done" =>
           \A k \in LeftBehind :
               /\ to_rename[k].old_name \in DOMAIN local
               /\ local[to_rename[k].old_name] = local0[to_rename[k].old_name]

\* C32 witness: a finished run that left a legacy tag behind and deleted
\* another tag in its delete phase.
C32_Witness ==
    /\ pc = "done"
    /\ LeftBehind # {}
    /\ result.deleted_count > 0
    /\ \E k \in LeftBehind : to_rename[k].old_name \in DOMAIN local

\* ------------------------------------------- calls the store can carry out
\* Positions of the history where op was issued for tag t
Issued(op, t) == {k \in 1..Len(ops) : ops[k].op = op /\ ops[k].tag = t}

\* C33: execute() never issues a create for a name that is in the local
\* store at that moment and never issues a local delete for a name that is
\* absent at that moment (such a call fails only when a failure is
\* injected), and it issues at most one local delete per name.
C33_NoCreateOfPresentNoDeleteOfAbsent ==
    /\ \A k \in 1..Len(ops) :
           (ops[k].op \in {"create", "delete_local"} /\ ~ops[k].ok) => ops[k].inj
    /\ \A t \in TagNames : Cardinality(Issued("delete_local", t)) <= 1
    /\ \A t \in TagNames : Cardinality(Issued("create", t)) <= 1

\* C33 witness: a finished run with a rename entry whose target existed, a
\* creation for another entry, and local deletions in both phases.
C33_Witness ==
    /\ pc = "done"
    /\ ConflictEntries # {}
    /\ \E k \in 1..Len(ops) : ops[k].op = "create" /\ ops[k].ok
    /\ \E k \in 1..delete_from : ops[k].op = "delete_local" /\ ops[k].ok
    /\ \E k \in DeletePhaseOps : ops[k].op = "delete_local" /\ ops[k].ok

\* ------------------------------------------------------ the protected set
\* C34: the protected set only grows during a run, and every name in it is
\* in the local store, at an unchanging commit, from the step that adds it
\* until execute() returns, whatever fails.
C34_ProtectedGrowsAndStays ==
    /\ [](protected_tags \subseteq DOMAIN local)
    /\ [][/\ protected_tags \subseteq protected_tags'
          /\ \A t \in protected_tags :
                 t \in DOMAIN local' /\ local'[t] = local[t]]_vars

\* C34 witness: a finished run that protected a name, deleted other tags and
\* met a failed push or deletion.
C34_Witness ==
    /\ pc = "done"
    /\ protected_tags # {}
    /\ protected_tags \subseteq DOMAIN local
    /\ result.deleted_count > 0
    /\ Failed("push") \cup Failed("delete_local") \cup Failed("delete_remote") # {}

\* ------------------------------------------------------- when errors is empty
\* C35: when execute() returns, errors is empty if and only if no create,
\* push, local-delete or remote-delete call failed and no rename entry met
\* a different-commit conflict; errors holds one entry per such failure and
\* conflict and nothing else, so hosted-release failures and same-commit
\* conflicts add nothing to it.
C35_ErrorsEmptyIffNothingFailed ==
    pc = "done" =>
        /\ result.errors = <<>> <=> (FailedOps = {} /\ DifferentCommitEntries = {})
        /\ Len(result.errors) =
               Cardinality(FailedOps) + Cardinality(DifferentCommitEntries)
        /\ ConflictErrors = Cardinality(DifferentCommitEntries)

\* C35 witness: a run that resolved a same-commit conflict and met a failed
\* hosted-release deletion returns with errors empty.
C35_Witness ==
    /\ pc = "done"
    /\ result.errors = <<>>
    /\ SameCommitEntries # {}
    /\ Failed("delete_release") # {}

\* ------------------------------------------------- counters and result lists
\* Sequence s is the beginning of sequence t
IsPrefix(s, t) == Len(s) <= Len(t) /\ SubSeq(t, 1, Len(s)) = s

\* C36: at every point of a run renamed_count is the length of renamed_tags
\* and deleted_count the length of deleted_tags, no name is twice in
\* deleted_tags, and errors, renamed_tags and deleted_tags are only ever
\* appended to.
C36_CountersAgreeListsGrow ==
    /\ [](/\ result.renamed_count = Len(result.renamed_tags)
          /\ result.deleted_count = Len(result.deleted_tags)
          /\ \A t \in Range(result.deleted_tags) :
                 Occurrences(result.deleted_tags, t) = 1)
    /\ [][/\ IsPrefix(result.errors, result'.errors)
          /\ IsPrefix(result.renamed_tags, result'.renamed_tags)
          /\ IsPrefix(result.deleted_tags, result'.deleted_tags)]_vars

\* C36 witness: a finished run that renamed a tag, deleted more than one and
\* recorded an error.
C36_Witness ==
    /\ pc = "done"
    /\ result.renamed_count > 0
    /\ result.renamed_count = Len(result.renamed_tags)
    /\ result.deleted_count > 1
    /\ result.deleted_count = Len(result.deleted_tags)
    /\ result.errors # <<>>

\* ------------------------------- a failed local deletion in the rename phase
\* Positions of failed local deletions of a legacy tag
FailedOldDeletes == {k \in Failed("delete_local") : classify_tag(ops[k].tag) = RENAME}

\* C37: if the local deletion of old_name fails in the rename phase, the
\* remote deletion of old_name is still attempted, new_name is still added
\* to the protected set and the entry is still counted and listed as
\* renamed; an error is recorded and both old_name and new_name are in the
\* local store, then and when the run ends.
C37_FailedOldDeleteNotConsulted ==
    \A k \in FailedOldDeletes :
        LET old_tag == ops[k].tag
            new_tag == rename_target(old_tag)
        IN  /\ Truthy(remote) => FollowedBy(k, "delete_remote", old_tag)
            /\ new_tag \in protected_tags
            /\ RenameRecorded(old_tag)
            /\ result.renamed_count >= 1
            /\ Occurrences(result.errors, DeleteLocalError(old_tag)) = 1
            /\ old_tag \in DOMAIN local
            /\ new_tag \in DOMAIN local

\* C37 witness: a finished run with a remote in which the local deletion of
\* a legacy tag failed.
C37_Witness ==
    /\ pc = "done"
    /\ Truthy(remote)
    /\ FailedOldDeletes # {}
    /\ \A k \in FailedOldDeletes :
           ops[k].tag \in DOMAIN local /\ rename_target(ops[k].tag) \in DOMAIN local

\* -------------------------------------------------- entries never collide
\* The legacy-prefixed names among the sample names and the store's names
LegacyInputs == {T \in PureInputs \cup TagNames : classify_tag(T) = RENAME}

\* The calls that look up the commit of a rename target: the sign that a
\* rename iteration found its target in the tag list
TargetLookups ==
    {k \in 1..Len(ops) : ops[k].op = "resolve" /\ classify_tag(ops[k].tag) = DELETE}

\* C38: in a plan every entry's new_name is the rename target of its
\* old_name and classifies as DELETE, no other legacy-prefixed name has the
\* same rename target, and no entry's new_name is another entry's old_name
\* or new_name; a rename iteration finds its target present only if the
\* target was in the store before the run, and creates only names that
\* were not.  (The plan does not change after it is made: the comparison
\* with the other legacy-prefixed names is made when the rename loop starts.)
C38_EntriesNeverCollide ==
    /\ \A k \in 1..Len(to_rename) :
           LET e == to_rename[k]
           IN  /\ classify_tag(e.old_name) = RENAME
               /\ e.new_name = rename_target(e.old_name)
               /\ classify_tag(e.new_name) = DELETE
               /\ \A j \in 1..Len(to_rename) :
                      /\ e.new_name # to_rename[j].old_name
                      /\ j # k => e.new_name # to_rename[j].new_name
    /\ (pc = "rename" /\ entry_idx = 1) =>
           \A k \in 1..Len(to_rename), U \in LegacyInputs :
               rename_target(U) = to_rename[k].new_name => U = to_rename[k].old_name
    /\ \A k \in TargetLookups : ops[k].tag \in DOMAIN local0
    /\ \A k \in 1..Len(ops) :
           (ops[k].op = "create" /\ ops[k].ok) => ops[k].tag \notin DOMAIN local0

\* C38 witness: a finished run with more than one entry, one whose target
\* was in the store before the run and one whose target was created.
C38_Witness ==
    /\ pc = "done"
    /\ Len(to_rename) > 1
    /\ TargetLookups # {}
    /\ \E k \in 1..Len(ops) : ops[k].op = "create" /\ ops[k].ok

\* --------------------------------- push fails, remote deletion succeeds
\* Failed pushes whose entry went on to delete old_name on the remote
PushFailedOldGone ==
    {k \in Failed("push") :
        \E j \in (k + 1)..Len(ops) :
            /\ ops[j].op = "delete_remote"
            /\ ops[j].tag = OldNameOf(ops[k].tag)
            /\ ops[j].ok}

====
